---------------------------- MODULE Spec2Model ----------------------------
(***************************************************************************)
(* Proxy-side metadata engine of undermoon: MetaManager (set_meta,         *)
(* handle_switch, send) over an ArcSwap'ed MetaMap snapshot, with the      *)
(* DeleteKeysTaskMap rebuilt on every accepted topology update.            *)
(***************************************************************************)
EXTENDS Integers, Sequences, FiniteSets, TLC

(***************************************************************************)
(* Bounds of the model.                                                    *)
(***************************************************************************)
\* Largest epoch a pushed ProxyClusterMeta or a migration meta carries.
MaxEpoch == 2
\* Number of set_meta calls made in one behaviour.
MaxCalls == 3
\* Number of set_meta calls made while a reader runs beside them.
MaxRaced == 2

(***************************************************************************)
(* Data: clusters, nodes, slot ranges, migration metas, local maps.        *)
(***************************************************************************)
Writers == {"w1", "w2"}

NoOwner == "none"

Cluster1 == "c1"

Node1 == "10.0.0.1:6379"

Node2 == "10.0.0.2:6379"

\* MigrationMeta as the manager reads it: only `epoch` is consulted.
MigrationMeta(e) == [epoch |-> e, src_node_address |-> Node2, dst_node_address |-> Node1]

TagNone == [kind |-> "None"]

TagMigrating(m) == [kind |-> "Migrating", meta |-> m]

TagImporting(m) == [kind |-> "Importing", meta |-> m]

SlotRange(s, e, t) == [start |-> s, end |-> e, tag |-> t]

\* One (cluster, node, slot range) entry of a local map
\* {cluster -> node -> [SlotRange]}.
Entry(c, n, r) == [cluster |-> c, node |-> n, range |-> r]

\* The epoch of the migration entries the pushed topologies carry.
PushedMigration == MigrationMeta(2)

\* The local maps the broker pushes in this model.
LocalMaps ==
    { {},
      {Entry(Cluster1, Node1, SlotRange(0, 100, TagNone))},
      {Entry(Cluster1, Node1, SlotRange(0, 50, TagNone))},
      {Entry(Cluster1, Node1, SlotRange(0, 50, TagNone)),
       Entry(Cluster1, Node1, SlotRange(300, 400, TagImporting(PushedMigration)))} }

\* ProxyClusterMeta: epoch, flags{force}, local map.
ProxyClusterMetas ==
    [epoch : 0..MaxEpoch, flags : [force : BOOLEAN], local : LocalMaps]

\* HashMap keys of a local map: its clusters, and the nodes of a cluster.
LocalNodes(local) == {<<e.cluster, e.node>> : e \in local}

RangesOf(local, c, n) == {e.range : e \in {x \in local : x.cluster = c /\ x.node = n}}

SlotsOf(ranges) == UNION {r.start..r.end : r \in ranges}

(***************************************************************************)
(* MetaMap::new: the snapshot a fresh manager publishes.                   *)
(***************************************************************************)
EmptyTaskMap == << >>

\* (`epoch` is not a field of MetaMap: it notes the epoch of the meta the
\* snapshot was built from, 0 for the one of MetaMap::new.)
MetaMapNew ==
    [cluster_map |-> {}, migration_map |-> {}, deleting_task_map |-> EmptyTaskMap,
     epoch |-> 0]

(***************************************************************************)
(* Snapshot build.                                                         *)
(***************************************************************************)
\* ClusterBackendMap::from_cluster_map: the backends of the pushed local map.
FromClusterMap(cluster_meta) == cluster_meta.local

\* MigrationTaskMeta keys of the tagged ranges of a local map.
MigrationKeys(local) ==
    {[cluster |-> e.cluster, slot_range |-> e.range] : e \in {x \in local : x.range.tag.kind # "None"}}

\* create_new_migration_map: tasks whose key persists are carried over, a
\* key that first appears gets a new task (born in call `id`).
CreateNewMigrationMap(old_migration_map, local, id) ==
    LET keys == MigrationKeys(local)
        carried == {t \in old_migration_map : t.meta \in keys}
        new_tasks == {[meta |-> k, born |-> id] : k \in keys \ {t.meta : t \in carried}}
    IN  [migration_map |-> carried \cup new_tasks, new_tasks |-> new_tasks]

\* get_left_slots_after_change: the (cluster, node) pairs of the new local
\* map that lost slots they had in the old snapshot, with the ranges they
\* retain.
GetLeftSlotsAfterChange(old_meta_map, local) ==
    LET shrunk == {k \in LocalNodes(local) :
                     SlotsOf(RangesOf(old_meta_map.cluster_map, k[1], k[2]))
                        \ SlotsOf(RangesOf(local, k[1], k[2])) # {}}
    IN  [k \in shrunk |-> {<<r.start, r.end>> : r \in RangesOf(local, k[1], k[2])}]

\* DeleteKeysTask::new: address and retained ranges; `born` is the identity
\* of the Arc.
DeleteKeysTaskNew(k, slots, id) ==
    [cluster |-> k[1], address |-> k[2], slot_ranges |-> slots, born |-> id]

\* Mutant: the old tasks are copied whether or not their node is still in
\* the local map.
UpdateFromOldTaskMapCopiesAll(task_map, local, left_slots_after_change, id) ==
    LET copied == DOMAIN task_map
        added == DOMAIN left_slots_after_change
        new_task(k) == DeleteKeysTaskNew(k, left_slots_after_change[k], id)
    IN  [task_map |-> [k \in copied \cup added |->
                         IF k \in added THEN new_task(k) ELSE task_map[k]],
         new_tasks |-> {new_task(k) : k \in added}]

\* Mutant: the new tasks are put in the map but not among the tasks to run.
UpdateFromOldTaskMapForgetsNew(task_map, local, left_slots_after_change, id) ==
    LET copied == {k \in DOMAIN task_map : k \in LocalNodes(local)}
        added == DOMAIN left_slots_after_change
        new_task(k) == DeleteKeysTaskNew(k, left_slots_after_change[k], id)
    IN  [task_map |-> [k \in copied \cup added |->
                         IF k \in added THEN new_task(k) ELSE task_map[k]],
         new_tasks |-> {}]

\* DeleteKeysTaskMap::update_from_old_task_map.
UpdateFromOldTaskMap(task_map, local, left_slots_after_change, id) ==
    LET copied == {k \in DOMAIN task_map : k \in LocalNodes(local)}
        added == DOMAIN left_slots_after_change
        new_task(k) == DeleteKeysTaskNew(k, left_slots_after_change[k], id)
    IN  [task_map |-> [k \in copied \cup added |->
                         IF k \in added THEN new_task(k) ELSE task_map[k]],
         new_tasks |-> {new_task(k) : k \in added}]

DeleteTasksOf(meta) == {meta.deleting_task_map[k] : k \in DOMAIN meta.deleting_task_map}

\* Number of start() calls made on one task by callers other than set_meta.
MaxTaskStarts == 2

\* The results of the start() calls made on a task so far, in order.
CallsOf(made, task) == IF task \in DOMAIN made THEN made[task] ELSE << >>

\* Mutant: start() hands out the future and leaves it in the task.
StartLeavesFuture(made, task) ==
    [fut |-> "Some", calls |-> Append(CallsOf(made, task), "Some")]

\* DeleteKeysTask::start: self.fut.take(): the future the task was built
\* with goes to the first call, every later call finds None.
Start(made, task) ==
    LET fut == IF Len(CallsOf(made, task)) = 0 THEN "Some" ELSE "None"
    IN  [fut |-> fut, calls |-> Append(CallsOf(made, task), fut)]

(***************************************************************************)
(* State.                                                                  *)
(***************************************************************************)
VARIABLES
    meta_map,       \* ArcSwap pointer: id of the published MetaMap
    snapshots,      \* the MetaMap objects still referenced, by id
    epoch,          \* MetaManager.epoch (AtomicU64)
    epoch_by,       \* id of the set_meta call that stored `epoch` (0: new)
    lock,           \* MetaManager.lock: the writer holding it
    calls,          \* number of set_meta calls that took the lock
    history,        \* the set_meta calls so far, in lock order
    sm,             \* set_meta frame of each writer
    running_tasks,      \* migration futures spawned by run_tasks, not dropped
    running_deleting,   \* delete futures spawned by run_deleting_tasks, not dropped
    hs,             \* handle_switch frame of the control-plane caller
    refused,        \* a switch of the pushed migration was answered NotReady
    snd,            \* send_cmd_ctx frame of the session
    config,         \* MetaManager.config (ServerProxyConfig)
    sel,            \* try_select_db frame of the session
    redis,          \* the keys stored by the backend at each node address
    delete_futs,    \* the started futures of the DeleteKeysTasks
    launches,       \* how many start() calls obtained the future of each task
    interval,       \* what gen_future computed for the task being created
    setdb,          \* the SETDB argument list and what parse made of it
    repl            \* a RedisReplicaReplicator, its channels and its callers

\* The state of the manager and of its callers.
managerVars == <<meta_map, snapshots, epoch, epoch_by, lock, calls, history, sm,
                 running_tasks, running_deleting, hs, refused, snd>>

\* What set_meta, handle_switch and send_cmd_ctx leave alone.
rest == <<config, sel, redis, delete_futs, launches, interval, setdb, repl>>

\* The parts no caller of the manager is part of.
apart == <<interval, setdb, repl>>

vars == <<meta_map, snapshots, epoch, epoch_by, lock, calls, history, sm,
          running_tasks, running_deleting, hs, refused, snd, config, sel, redis, delete_futs,
          launches, interval, setdb, repl>>

IdleFrame == [pc |-> "idle", result |-> "none"]

\* The session before its first command.
NoCommand == [pc |-> "idle", asked |-> << >>, accepted_by |-> {}, reply |-> "none"]

Idle == [pc |-> "idle"]

NoHistory == [first |-> -1, last |-> {}, strict |-> TRUE, rejected |-> FALSE]

\* ServerProxyConfig: auto_select_db is false unless configured.
DefaultConfig == [auto_select_db |-> FALSE]

\* No backend holds a key, no delete future was started.
NoKeys == [n \in {Node1, Node2} |-> {}]

NoFutures == << >>

\* No future was obtained from a task, no task is being created.
NoLaunches == << >>

NoInterval == [pc |-> "none"]

\* No SETDB command has arrived.
NoArgs == [pc |-> "none"]

\* No replicator exists.
NoReplicator == [pc |-> "none"]

\* The parts that play no role beside the manager.
Apart ==
    /\ interval = NoInterval
    /\ setdb = NoArgs
    /\ repl = NoReplicator

\* MetaManager::new
MetaManagerNew(cfg) ==
    /\ config = cfg
    /\ meta_map = 0
    /\ snapshots = (0 :> MetaMapNew)
    /\ epoch = 0
    /\ epoch_by = 0
    /\ lock = NoOwner
    /\ calls = 0
    /\ history = NoHistory
    /\ sm = [w \in Writers |-> IdleFrame]
    /\ running_tasks = {}
    /\ running_deleting = {}
    /\ hs = Idle
    /\ refused = FALSE
    /\ snd = NoCommand

Init ==
    /\ MetaManagerNew(DefaultConfig)
    /\ sel = Idle
    /\ redis = NoKeys
    /\ delete_futs = NoFutures
    /\ launches = NoLaunches
    /\ Apart

(***************************************************************************)
(* Reference counting (Arc): a MetaMap lives while the ArcSwap, a          *)
(* set_meta guard or a lease points at it; a task lives while a living     *)
(* MetaMap or a set_meta frame holds it, and its future stops when the     *)
(* task is dropped.                                                        *)
(***************************************************************************)
Building(frames) == {w \in DOMAIN frames : frames[w].pc \notin {"idle", "check", "build"}}

HeldBy(frames) == {frames[w].old : w \in Building(frames)}

LeasedBy(frame) == IF frame.pc = "idle" THEN {} ELSE {frame.lease}

Collect(snaps, live) == [i \in DOMAIN snaps \cap live |-> snaps[i]]

AliveTasks(snaps, frames) ==
    UNION {snaps[i].migration_map : i \in DOMAIN snaps}
        \cup UNION {frames[w].built.migration_map : w \in Building(frames)}

AliveDeleting(snaps, frames) ==
    UNION {DeleteTasksOf(snaps[i]) : i \in DOMAIN snaps}
        \cup UNION {DeleteTasksOf(frames[w].built) : w \in Building(frames)}

\* The references left after a step that stored `snaps` and spawned
\* `tasks` and `deleting`.
Settle(snaps, tasks, deleting) ==
    /\ snapshots' = Collect(snaps, {meta_map'} \cup HeldBy(sm') \cup LeasedBy(snd'))
    /\ running_tasks' = tasks \cap AliveTasks(snapshots', sm')
    /\ running_deleting' = deleting \cap AliveDeleting(snapshots', sm')

(***************************************************************************)
(* MetaManager::set_meta                                                   *)
(***************************************************************************)
\* Mutant: the tasks are launched before the snapshot is published.
SetMetaStepsRunFirst ==
    <<"build", "run_tasks", "run_deleting_tasks", "publish", "store_epoch", "return">>

\* Mutant: the epoch is stored before the snapshot is published.
SetMetaStepsEpochFirst ==
    <<"build", "store_epoch", "publish", "run_tasks", "run_deleting_tasks", "return">>

\* The statements of set_meta after the epoch check, in program order.
SetMetaSteps ==
    <<"build", "publish", "store_epoch", "run_tasks", "run_deleting_tasks", "return">>

StepAfter(step) ==
    LET i == CHOOSE j \in 1..Len(SetMetaSteps) : SetMetaSteps[j] = step
    IN  SetMetaSteps[i + 1]

\* Mutant: set_meta does not take the lock.
LockAlwaysFree == TRUE

\* self.lock.lock(): the guard is free.
LockFree == lock = NoOwner

\* Mutant: an equal epoch passes the check.
IsOldEpochStrict(cluster_meta, current_epoch) ==
    cluster_meta.epoch < current_epoch /\ ~cluster_meta.flags.force

\* Mutant: the comparison is the wrong way round.
IsOldEpochReversed(cluster_meta, current_epoch) ==
    cluster_meta.epoch >= current_epoch /\ ~cluster_meta.flags.force

\* The OldEpoch condition.
IsOldEpoch(cluster_meta, current_epoch) ==
    cluster_meta.epoch <= current_epoch /\ ~cluster_meta.flags.force

\* The calls so far: the first epoch, the last meta (a set of at most one),
\* whether the epochs were strictly increasing without FORCE (nothing else
\* is kept once they were not), and whether a call was rejected.
NoteCall(h, cluster_meta) ==
    IF h.strict /\ ~cluster_meta.flags.force
           /\ \A m \in h.last : cluster_meta.epoch > m.epoch
    THEN [first |-> IF h.last = {} THEN cluster_meta.epoch ELSE h.first,
          last |-> {cluster_meta}, strict |-> TRUE, rejected |-> h.rejected]
    ELSE [first |-> -1, last |-> {}, strict |-> FALSE, rejected |-> FALSE]

\* A writer calls set_meta(cluster_meta) and takes the write lock.
SetMetaLock(w, cluster_meta) ==
    /\ sm[w].pc = "idle"
    /\ calls < MaxCalls
    /\ LockFree
    /\ lock' = w
    /\ calls' = calls + 1
    /\ history' = NoteCall(history, cluster_meta)
    /\ sm' = [sm EXCEPT ![w] = [pc |-> "check", result |-> "none",
                                cluster_meta |-> cluster_meta, call |-> calls + 1]]
    /\ UNCHANGED <<meta_map, snapshots, epoch, epoch_by, running_tasks, running_deleting,
                   hs, refused, snd>>
    /\ UNCHANGED rest

\* Mutant: the epoch is stored before it is checked.
SetMetaCheckStoresFirst(w) ==
    /\ sm[w].pc = "check"
    /\ epoch' = sm[w].cluster_meta.epoch
    /\ IF IsOldEpoch(sm[w].cluster_meta, epoch)
       THEN /\ sm' = [sm EXCEPT ![w] = [pc |-> "idle", result |-> "OldEpoch"]]
            /\ lock' = NoOwner
            /\ history' = [history EXCEPT !.rejected = history.strict]
       ELSE /\ sm' = [sm EXCEPT ![w].pc = "build"]
            /\ UNCHANGED <<lock, history>>
    /\ UNCHANGED <<meta_map, snapshots, epoch_by, calls,
                   running_tasks, running_deleting, hs, refused, snd>>
    /\ UNCHANGED rest

\* The epoch check; a rejected call returns and drops the guard.
SetMetaCheck(w) ==
    /\ sm[w].pc = "check"
    /\ IF IsOldEpoch(sm[w].cluster_meta, epoch)
       THEN /\ sm' = [sm EXCEPT ![w] = [pc |-> "idle", result |-> "OldEpoch"]]
            /\ lock' = NoOwner
            /\ history' = [history EXCEPT !.rejected = history.strict]
       ELSE /\ sm' = [sm EXCEPT ![w].pc = "build"]
            /\ UNCHANGED <<lock, history>>
    /\ UNCHANGED <<meta_map, snapshots, epoch, epoch_by, calls,
                   running_tasks, running_deleting, hs, refused, snd>>
    /\ UNCHANGED rest

\* Loads the old snapshot and builds the new maps from it and the meta.
SetMetaBuild(w) ==
    /\ sm[w].pc = "build"
    /\ LET f == sm[w]
           old_meta_map == snapshots[meta_map]
           mig == CreateNewMigrationMap(old_meta_map.migration_map, f.cluster_meta.local, f.call)
           left_slots_after_change == GetLeftSlotsAfterChange(old_meta_map, f.cluster_meta.local)
           del == UpdateFromOldTaskMap(old_meta_map.deleting_task_map, f.cluster_meta.local,
                                       left_slots_after_change, f.call)
       IN  sm' = [sm EXCEPT ![w] =
                    [pc |-> StepAfter("build"), result |-> "none",
                     cluster_meta |-> f.cluster_meta, call |-> f.call,
                     old |-> meta_map,
                     built |-> [cluster_map |-> FromClusterMap(f.cluster_meta),
                                migration_map |-> mig.migration_map,
                                deleting_task_map |-> del.task_map,
                                epoch |-> f.cluster_meta.epoch],
                     new_tasks |-> mig.new_tasks,
                     new_deleting_tasks |-> del.new_tasks]]
    /\ UNCHANGED <<meta_map, snapshots, epoch, epoch_by, lock, calls, history,
                   running_tasks, running_deleting, hs, refused, snd>>
    /\ UNCHANGED rest

\* Mutant: the published MetaMap is overwritten in place.
SetMetaPublishInPlace(w) ==
    /\ sm[w].pc = "publish"
    /\ sm' = [sm EXCEPT ![w].pc = StepAfter("publish")]
    /\ UNCHANGED <<meta_map, epoch, epoch_by, lock, calls, history, hs, refused, snd>>
    /\ Settle([snapshots EXCEPT ![meta_map] = sm[w].built], running_tasks, running_deleting)
    /\ UNCHANGED rest

\* self.meta_map.store(Arc::new(MetaMap {..}))
SetMetaPublish(w) ==
    /\ sm[w].pc = "publish"
    /\ meta_map' = sm[w].call
    /\ sm' = [sm EXCEPT ![w].pc = StepAfter("publish")]
    /\ UNCHANGED <<epoch, epoch_by, lock, calls, history, hs, refused, snd>>
    /\ Settle((sm[w].call :> sm[w].built) @@ snapshots, running_tasks, running_deleting)
    /\ UNCHANGED rest

\* Mutant: the epoch is not stored.
SetMetaStoreEpochSkipped(w) ==
    /\ sm[w].pc = "store_epoch"
    /\ sm' = [sm EXCEPT ![w].pc = StepAfter("store_epoch")]
    /\ UNCHANGED <<meta_map, snapshots, epoch, epoch_by, lock, calls, history, running_tasks,
                   running_deleting, hs, refused, snd>>
    /\ UNCHANGED rest

\* self.epoch.store(cluster_meta.get_epoch(), SeqCst)
SetMetaStoreEpoch(w) ==
    /\ sm[w].pc = "store_epoch"
    /\ epoch' = sm[w].cluster_meta.epoch
    /\ epoch_by' = sm[w].call
    /\ sm' = [sm EXCEPT ![w].pc = StepAfter("store_epoch")]
    /\ UNCHANGED <<meta_map, snapshots, lock, calls, history, running_tasks,
                   running_deleting, hs, refused, snd>>
    /\ UNCHANGED rest

\* self.migration_manager.run_tasks(new_tasks)
SetMetaRunTasks(w) ==
    /\ sm[w].pc = "run_tasks"
    /\ running_tasks' = running_tasks \cup sm[w].new_tasks
    /\ sm' = [sm EXCEPT ![w].pc = StepAfter("run_tasks")]
    /\ UNCHANGED <<meta_map, snapshots, epoch, epoch_by, lock, calls, history,
                   running_deleting, hs, refused, snd>>
    /\ UNCHANGED rest

\* self.migration_manager.run_deleting_tasks(new_deleting_tasks): start() is
\* called on every new task and the future obtained, if any, is spawned.
SetMetaRunDeletingTasks(w) ==
    /\ sm[w].pc = "run_deleting_tasks"
    /\ LET tasks == sm[w].new_deleting_tasks
       IN  /\ running_deleting' =
                 running_deleting \cup {t \in tasks : Start(launches, t).fut = "Some"}
           /\ launches' = [t \in DOMAIN launches \cup tasks |->
                             IF t \in tasks THEN Start(launches, t).calls ELSE launches[t]]
    /\ sm' = [sm EXCEPT ![w].pc = StepAfter("run_deleting_tasks")]
    /\ UNCHANGED <<meta_map, snapshots, epoch, epoch_by, lock, calls, history,
                   running_tasks, hs, refused, snd>>
    /\ UNCHANGED <<config, sel, redis, delete_futs>>
    /\ UNCHANGED apart

\* Ok(()): old_meta_map and the lock guard are dropped.
SetMetaReturn(w) ==
    /\ sm[w].pc = "return"
    /\ sm' = [sm EXCEPT ![w] = [pc |-> "idle", result |-> "Ok"]]
    /\ lock' = NoOwner
    /\ UNCHANGED <<meta_map, epoch, epoch_by, calls, history, hs, refused, snd>>
    /\ Settle(snapshots, running_tasks, running_deleting)
    /\ UNCHANGED rest

\* The body of set_meta, under the lock.
SetMetaBody(w) ==
    \/ SetMetaCheck(w)
    \/ SetMetaBuild(w)
    \/ SetMetaPublish(w)
    \/ SetMetaStoreEpoch(w)
    \/ SetMetaRunTasks(w)
    \/ SetMetaRunDeletingTasks(w)
    \/ SetMetaReturn(w)

SetMeta(w) ==
    \/ \E cluster_meta \in ProxyClusterMetas : SetMetaLock(w, cluster_meta)
    \/ SetMetaBody(w)

\* set_meta beside a reader.
SetMetaRaced(w) ==
    \/ calls < MaxRaced /\ \E cluster_meta \in ProxyClusterMetas : SetMetaLock(w, cluster_meta)
    \/ SetMetaBody(w)

\* start() called on a task of the published snapshot by another holder of
\* its Arc.
TaskStart(task) ==
    /\ task \in DeleteTasksOf(snapshots[meta_map])
    /\ Len(CallsOf(launches, task)) < MaxTaskStarts
    /\ launches' = [t \in DOMAIN launches \cup {task} |->
                      IF t = task THEN Start(launches, t).calls ELSE launches[t]]
    /\ UNCHANGED <<config, sel, redis, delete_futs>>
    /\ UNCHANGED apart
    /\ UNCHANGED managerVars

(***************************************************************************)
(* MetaManager::handle_switch                                              *)
(***************************************************************************)
MgrSubCmds == {"PRE", "COMMIT"}

SwitchTags ==
    {TagNone} \cup {TagMigrating(MigrationMeta(e)) : e \in 1..MaxEpoch}
              \cup {TagImporting(MigrationMeta(e)) : e \in 1..MaxEpoch}

\* SwitchArg {version, meta: MigrationTaskMeta {cluster, slot_range}}
SwitchArgs ==
    {[version |-> v, meta |-> [cluster |-> Cluster1, slot_range |-> SlotRange(300, 400, t)]] :
        v \in {"v1", "v2"}, t \in SwitchTags}

\* Mutant: the meta is passed on with the tag it came with.
TaskMetaOfAsGiven(switch_arg) == switch_arg.meta

\* The stored meta is with importing tag: a migrating tag becomes the
\* importing tag with the same meta.
TaskMetaOf(switch_arg) ==
    LET tag == switch_arg.meta.slot_range.tag
    IN  IF tag.kind = "Migrating"
        THEN [switch_arg.meta EXCEPT !.slot_range.tag = TagImporting(tag.meta)]
        ELSE switch_arg.meta

\* Mutant: a switch of the current epoch is NotReady too.
IsNotReadyOrEqual(current_epoch, arg_epoch) == current_epoch <= arg_epoch

\* The NotReady condition.
IsNotReady(current_epoch, arg_epoch) == current_epoch < arg_epoch

\* MigrationMap::handle_switch: the task stored under the meta of the
\* argument takes the switch; no task, no switch.
MigrationMapHandleSwitch(migration_map, switch_arg, sub_cmd) ==
    IF \E t \in migration_map : t.meta = switch_arg.meta THEN "Ok" ELSE "TaskNotFound"

\* Mutant: a slot range without a tag is passed to the migration map.
HandleSwitchCheckPassesNone(switch_arg, sub_cmd) ==
    /\ hs.pc = "idle"
    /\ LET tag == switch_arg.meta.slot_range.tag
           call == [switch_arg |-> switch_arg, sub_cmd |-> sub_cmd]
       IN  IF tag.kind # "None" /\ IsNotReady(epoch, tag.meta.epoch)
           THEN /\ hs' = call @@ [pc |-> "ret", result |-> "NotReady", delegated |-> FALSE]
                /\ refused' = (refused \/ tag.meta = PushedMigration)
           ELSE /\ hs' = call @@ [pc |-> "delegate", task_meta |-> TaskMetaOf(switch_arg),
                                  seen_epoch |-> epoch, seen_by |-> epoch_by]
                /\ UNCHANGED refused
    /\ UNCHANGED <<meta_map, snapshots, epoch, epoch_by, lock, calls, history, sm,
                   running_tasks, running_deleting, snd>>
    /\ UNCHANGED rest

\* The tag match and the epoch check.
HandleSwitchCheck(switch_arg, sub_cmd) ==
    /\ hs.pc = "idle"
    /\ LET tag == switch_arg.meta.slot_range.tag
           call == [switch_arg |-> switch_arg, sub_cmd |-> sub_cmd]
       IN  IF tag.kind = "None"
           THEN /\ hs' = call @@ [pc |-> "ret", result |-> "InvalidArg", delegated |-> FALSE]
                /\ UNCHANGED refused
           ELSE IF IsNotReady(epoch, tag.meta.epoch)
           THEN /\ hs' = call @@ [pc |-> "ret", result |-> "NotReady", delegated |-> FALSE]
                /\ refused' = (refused \/ tag.meta = PushedMigration)
           ELSE /\ hs' = call @@ [pc |-> "delegate", task_meta |-> TaskMetaOf(switch_arg),
                                  seen_epoch |-> epoch, seen_by |-> epoch_by]
                /\ UNCHANGED refused
    /\ UNCHANGED <<meta_map, snapshots, epoch, epoch_by, lock, calls, history, sm,
                   running_tasks, running_deleting, snd>>
    /\ UNCHANGED rest

\* self.meta_map.load().migration_map.handle_switch(SwitchArg {..}, sub_cmd)
HandleSwitchDelegate ==
    /\ hs.pc = "delegate"
    /\ LET passed == [version |-> hs.switch_arg.version, meta |-> hs.task_meta]
       IN  hs' = [switch_arg |-> hs.switch_arg, sub_cmd |-> hs.sub_cmd,
                  pc |-> "ret", delegated |-> TRUE,
                  result |-> MigrationMapHandleSwitch(snapshots[meta_map].migration_map,
                                                      passed, hs.sub_cmd),
                  passed |-> passed, passed_sub_cmd |-> hs.sub_cmd,
                  seen_epoch |-> hs.seen_epoch, seen_by |-> hs.seen_by,
                  loaded |-> meta_map, loaded_epoch |-> snapshots[meta_map].epoch]
    /\ UNCHANGED <<meta_map, snapshots, epoch, epoch_by, lock, calls, history, sm,
                   running_tasks, running_deleting, refused, snd>>
    /\ UNCHANGED rest

\* The caller takes the result.
HandleSwitchReturn ==
    /\ hs.pc = "ret"
    /\ hs' = Idle
    /\ UNCHANGED <<meta_map, snapshots, epoch, epoch_by, lock, calls, history, sm,
                   running_tasks, running_deleting, refused, snd>>
    /\ UNCHANGED rest

HandleSwitch ==
    \/ \E switch_arg \in SwitchArgs, sub_cmd \in MgrSubCmds : HandleSwitchCheck(switch_arg, sub_cmd)
    \/ HandleSwitchDelegate
    \/ HandleSwitchReturn

(***************************************************************************)
(* send_cmd_ctx                                                            *)
(***************************************************************************)
\* The commands of the session: a cluster and the slot of the key.
CmdCtxs == [cluster : {Cluster1}, slot : {10, 350}]

\* MigrationMap::send: a slot under migration is handled by its task (which
\* may fail), any other slot is SlotNotFound.
MigrationMapSend(migration_map, cmd_ctx) ==
    IF \E t \in migration_map :
          /\ t.meta.cluster = cmd_ctx.cluster
          /\ cmd_ctx.slot \in t.meta.slot_range.start..t.meta.slot_range.end
    THEN {"Ok", "Canceled"}
    ELSE {"SlotNotFound"}

\* ClusterBackendMap::send: a slot of a hosted range goes to the backend of
\* its node (which may fail), any other command fails.
ClusterMapSend(cluster_map, cmd_ctx) ==
    IF \E e \in cluster_map :
          e.cluster = cmd_ctx.cluster /\ cmd_ctx.slot \in e.range.start..e.range.end
    THEN {"Ok", "Backend", "MissingKey"}
    ELSE {"SlotNotCovered", "MissingKey"}

\* What becomes of the reply of a command on the result of a send: an
\* accepted command is answered later by the one that took it, SlotNotFound
\* hands the command back unanswered, any other error has answered it with
\* an error reply.
ReplyOn(res) ==
    IF res = "Ok" THEN "pending" ELSE IF res = "SlotNotFound" THEN "none" ELSE "error"

\* let meta_map = meta_map.lease()
SendLease(cmd_ctx) ==
    /\ snd.pc = "idle"
    /\ snd.reply # "pending"
    /\ snd' = [pc |-> "migration", cmd_ctx |-> cmd_ctx, lease |-> meta_map,
               leased |-> snapshots[meta_map],
               asked |-> << >>, accepted_by |-> {}, reply |-> "none"]
    /\ UNCHANGED <<meta_map, snapshots, epoch, epoch_by, lock, calls, history, sm,
                   running_tasks, running_deleting, hs, refused>>
    /\ UNCHANGED rest

\* send_cmd_ctx has returned: the lease is dropped.
Returned(frame) ==
    [pc |-> "idle", asked |-> frame.asked, accepted_by |-> frame.accepted_by,
     reply |-> frame.reply]

\* Mutant: the command goes on to the cluster map whatever the migration
\* map answered.
SendMigrationFallsThrough ==
    /\ snd.pc = "migration"
    /\ UNCHANGED <<meta_map, epoch, epoch_by, lock, calls, history, sm, hs, refused>>
    /\ \E res \in MigrationMapSend(snapshots[snd.lease].migration_map, snd.cmd_ctx) :
          LET sent == [snd EXCEPT !.asked = Append(snd.asked, "migration"),
                                  !.accepted_by = IF res = "Ok" THEN {"migration"} ELSE {},
                                  !.reply = ReplyOn(res)]
          IN  /\ snd' = [sent EXCEPT !.pc = "cluster"]
              /\ UNCHANGED <<snapshots, running_tasks, running_deleting>>
    /\ UNCHANGED rest

\* Mutant: a command the migration map hands back is not passed on.
SendMigrationOnly ==
    /\ snd.pc = "migration"
    /\ UNCHANGED <<meta_map, epoch, epoch_by, lock, calls, history, sm, hs, refused>>
    /\ \E res \in MigrationMapSend(snapshots[snd.lease].migration_map, snd.cmd_ctx) :
          LET sent == [snd EXCEPT !.asked = Append(snd.asked, "migration"),
                                  !.accepted_by = IF res = "Ok" THEN {"migration"} ELSE {},
                                  !.reply = ReplyOn(res)]
          IN  /\ snd' = Returned(sent)
              /\ Settle(snapshots, running_tasks, running_deleting)
    /\ UNCHANGED rest

\* meta_map.migration_map.send(cmd_ctx): Ok returns, SlotNotFound hands the
\* command back for the cluster map, any other error is logged and returns.
SendMigration ==
    /\ snd.pc = "migration"
    /\ UNCHANGED <<meta_map, epoch, epoch_by, lock, calls, history, sm, hs, refused>>
    /\ \E res \in MigrationMapSend(snapshots[snd.lease].migration_map, snd.cmd_ctx) :
          LET sent == [snd EXCEPT !.asked = Append(snd.asked, "migration"),
                                  !.accepted_by = IF res = "Ok" THEN {"migration"} ELSE {},
                                  !.reply = ReplyOn(res)]
          IN  IF res = "SlotNotFound"
              THEN /\ snd' = [sent EXCEPT !.pc = "cluster"]
                   /\ UNCHANGED <<snapshots, running_tasks, running_deleting>>
              ELSE /\ snd' = Returned(sent)
                   /\ Settle(snapshots, running_tasks, running_deleting)
    /\ UNCHANGED rest

\* meta_map.cluster_map.send(cmd_ctx): an error is logged (MissingKey is
\* not); the lease is dropped on return.
SendCluster ==
    /\ snd.pc = "cluster"
    /\ UNCHANGED <<meta_map, epoch, epoch_by, lock, calls, history, sm, hs, refused>>
    /\ \E res \in ClusterMapSend(snapshots[snd.lease].cluster_map, snd.cmd_ctx) :
          snd' = Returned([snd EXCEPT !.asked = Append(snd.asked, "cluster"),
                                      !.accepted_by = @ \cup (IF res = "Ok" THEN {"cluster"} ELSE {}),
                                      !.reply = IF snd.reply = "none" THEN ReplyOn(res) ELSE @])
    /\ Settle(snapshots, running_tasks, running_deleting)
    /\ UNCHANGED rest

Send ==
    \/ \E cmd_ctx \in CmdCtxs : SendLease(cmd_ctx)
    \/ SendMigration
    \/ SendCluster

\* The migration task or the backend that took the command answers it.
TakerReplies ==
    /\ snd.pc = "idle"
    /\ snd.reply = "pending"
    /\ \E answer \in {"reply", "error"} : snd' = [snd EXCEPT !.reply = answer]
    /\ UNCHANGED <<meta_map, snapshots, epoch, epoch_by, lock, calls, history, sm,
                   running_tasks, running_deleting, hs, refused>>
    /\ UNCHANGED rest

(***************************************************************************)
(* MetaManager::try_select_db                                              *)
(***************************************************************************)
\* DEFAULT_CLUSTER: the cluster of a session that has named none.
DefaultCluster == "admin"

Cluster2 == "c2"

\* Local maps hosting no cluster, one cluster, two clusters.
HostedMaps ==
    { {},
      {Entry(Cluster1, Node1, SlotRange(0, 100, TagNone))},
      {Entry(Cluster1, Node1, SlotRange(0, 100, TagNone)),
       Entry(Cluster2, Node2, SlotRange(0, 100, TagNone))} }

HostedClusterMetas == [epoch : 0..MaxEpoch, flags : [force : BOOLEAN], local : HostedMaps]

\* set_meta of a topology of none, one or two clusters.
SetMetaHosted(w) ==
    \/ calls < MaxRaced /\ \E cluster_meta \in HostedClusterMetas : SetMetaLock(w, cluster_meta)
    \/ SetMetaBody(w)

\* ClusterBackendMap::auto_select_cluster: the hosted cluster when there is
\* exactly one (a set of at most one name).
AutoSelectCluster(cluster_map) ==
    LET clusters == {e.cluster : e \in cluster_map}
    IN  IF Cardinality(clusters) = 1 THEN clusters ELSE {}

\* The command contexts of a session on the default cluster or on Cluster1.
SelectCmdCtxs == [cluster : {DefaultCluster, Cluster1}, slot : {10}]

\* try_select_db: a command context that is not on the default cluster is
\* returned as it is; on the default cluster it gets the cluster
\* auto_select_cluster names, if any.
TrySelectDb(cmd_ctx) ==
    /\ sel' = [pc |-> "idle", given |-> cmd_ctx,
               returned |->
                  IF cmd_ctx.cluster # DefaultCluster THEN cmd_ctx
                  ELSE LET cluster_name == AutoSelectCluster(snapshots[meta_map].cluster_map)
                       IN  IF cluster_name = {} THEN cmd_ctx
                           ELSE [cmd_ctx EXCEPT !.cluster = CHOOSE c \in cluster_name : TRUE]]
    /\ UNCHANGED <<config, redis, delete_futs, launches>>
    /\ UNCHANGED apart
    /\ UNCHANGED managerVars

\* A proxy configured either way.
InitSelect ==
    /\ \E auto_select_db \in BOOLEAN : MetaManagerNew([auto_select_db |-> auto_select_db])
    /\ sel = Idle
    /\ redis = NoKeys
    /\ delete_futs = NoFutures
    /\ launches = NoLaunches
    /\ Apart

(***************************************************************************)
(* DeleteKeysTask: the SCAN and DEL loop of a started task.                *)
(***************************************************************************)
\* Largest cursor a SCAN reply carries.
MaxCursor == 1

\* The keys of the backends, and get_slot of each.
Keys == {"ka", "kb", "kc"}

GetSlot(key) == CASE key = "ka" -> 50 [] key = "kb" -> 51 [] key = "kc" -> 350

\* RESP values.
RespNone == [type |-> "None"]

RespError == [type |-> "Error"]

RespInteger == [type |-> "Integer"]

RespNilArray == [type |-> "NilArr"]

RespBulk(str) == [type |-> "Bulk", s |-> str]

RespSimple(str) == [type |-> "Simple", s |-> str]

RespArr(resps) == [type |-> "Arr", resps |-> resps]

\* The sequences without repetition of the elements of a set.
SeqsOf(set) ==
    UNION {{q \in [1..n -> set] : \A i, j \in 1..n : q[i] = q[j] => i = j} :
             n \in 0..Cardinality(set)}

RespKeys(keys) == RespArr([i \in 1..Len(keys) |-> RespBulk(keys[i])])

\* What a backend holding `stored` may answer to a SCAN: a cursor and some
\* of its keys, or something else.
ScanReplies(stored) ==
    {RespArr(<<RespBulk(ToString(n)), RespKeys(keys)>>) :
        n \in 0..MaxCursor, keys \in SeqsOf(stored)}
    \cup {RespArr(<<RespSimple(ToString(n)), RespKeys(<< >>)>>) : n \in 0..MaxCursor}
    \cup {RespArr(<<RespBulk("1"), RespKeys(<< >>), RespInteger>>),
          RespError, RespNilArray, RespInteger, RespArr(<< >>),
          RespArr(<<RespBulk("0")>>),
          RespArr(<<RespBulk("x"), RespKeys(<< >>)>>),
          RespArr(<<RespInteger, RespKeys(<< >>)>>),
          RespArr(<<RespBulk("0"), RespBulk("ka")>>),
          RespArr(<<RespBulk("0"), RespArr(<<RespInteger>>)>>)}

\* What a backend may answer to a DEL.
DelReplies == {RespInteger, RespError}

\* str::from_utf8(..).ok()?.parse().ok()?: the number a string spells, if any.
ParseU64(str) == {n \in 0..MaxCursor : ToString(n) = str}

\* get_resp_bytes: the strings of an array of bulk strings, if it is one.
GetRespBytes(resp) ==
    IF resp.type = "Arr" /\ \A i \in 1..Len(resp.resps) : resp.resps[i].type = "Bulk"
    THEN {[i \in 1..Len(resp.resps) |-> resp.resps[i].s]}
    ELSE {}

\* parse_scan: Some(ScanResponse {next_index, keys}) or None, as a set of at
\* most one element.
ParseScan(resp) ==
    IF resp.type # "Arr" THEN {}
    ELSE LET resps == resp.resps
             index_data == IF Len(resps) >= 1 /\ resps[1].type \in {"Bulk", "Simple"}
                           THEN {resps[1].s} ELSE {}
             next_index == UNION {ParseU64(str) : str \in index_data}
             keys == IF Len(resps) >= 2 THEN GetRespBytes(resps[2]) ELSE {}
         IN  {[next_index |-> n, keys |-> k] : n \in next_index, k \in keys}

\* Mutant: the end of a range is not part of it.
IsKeyInsideExclusive(slot_ranges, key) ==
    \E range \in slot_ranges : GetSlot(key) >= range[1] /\ GetSlot(key) < range[2]

\* SlotRangeArray::is_key_inside
IsKeyInside(slot_ranges, key) ==
    \E range \in slot_ranges : GetSlot(key) >= range[1] /\ GetSlot(key) <= range[2]

\* keys.into_iter().filter(|k| !slot_ranges.is_key_inside(k)).collect()
KeysToDelete(slot_ranges, keys) ==
    LET outside(k) == ~IsKeyInside(slot_ranges, k)
    IN  SelectSeq(keys, outside)

ElementsOf(keys) == {keys[i] : i \in 1..Len(keys)}

\* DeleteKeysTask::gen_future: the future starts from data = (slot_ranges, 0).
GenFuture(task) ==
    [pc |-> "scan", index |-> 0, scan_index |-> -1, next_index |-> -1,
     resp |-> RespNone, batch |-> << >>, keys |-> << >>, result |-> "none"]

\* Mutant: the task ends on any cursor but 0.
IsDoneNonZero(next_index) == next_index # 0

\* if next_index == 0 { Err(Done) }
IsDone(next_index) == next_index = 0

\* keep_connecting_and_sending on what scan_and_delete_keys returns: Done
\* ends the task, an error ends it, new data is scanned after the interval.
KeepSending(frame, err) ==
    IF err # "none" THEN [frame EXCEPT !.pc = "ended", !.result = err]
    ELSE IF IsDone(frame.next_index) THEN [frame EXCEPT !.pc = "ended", !.result = "Done"]
    ELSE [frame EXCEPT !.pc = "scan", !.index = frame.next_index]

\* scan_and_delete_keys: SCAN with the cursor of the data, parse the reply,
\* keep the keys that are not inside the ranges; with none to delete the
\* cursor is looked at right away, else the DEL is sent.
ScanAndDeleteKeys(task) ==
    /\ task \in DOMAIN delete_futs
    /\ delete_futs[task].pc = "scan"
    /\ \E resp \in ScanReplies(redis[task.address]) :
          LET f == [delete_futs[task] EXCEPT !.scan_index = delete_futs[task].index,
                                             !.resp = resp]
              parsed == ParseScan(resp)
          IN  IF parsed = {}
              THEN delete_futs' = [delete_futs EXCEPT ![task] = KeepSending(f, "InvalidReply")]
              ELSE \E scan \in parsed :
                     LET keys == KeysToDelete(task.slot_ranges, scan.keys)
                         g == [f EXCEPT !.next_index = scan.next_index,
                                        !.batch = scan.keys, !.keys = keys]
                     IN  delete_futs' = [delete_futs EXCEPT ![task] =
                            IF keys = << >>
                            THEN KeepSending(g, "none")
                            ELSE [g EXCEPT !.pc = "del"]]
    /\ UNCHANGED <<redis, config, sel, launches>>
    /\ UNCHANGED apart
    /\ UNCHANGED managerVars

\* Mutant: an error reply to DEL is not looked at.
DelReplyIgnored(task) ==
    /\ task \in DOMAIN delete_futs
    /\ delete_futs[task].pc = "del"
    /\ \E resp \in DelReplies :
          /\ delete_futs' = [delete_futs EXCEPT ![task] =
                               KeepSending([delete_futs[task] EXCEPT !.resp = resp], "none")]
          /\ IF resp.type = "Error"
             THEN UNCHANGED redis
             ELSE redis' = [redis EXCEPT ![task.address] = @ \ ElementsOf(delete_futs[task].keys)]
    /\ UNCHANGED <<config, sel, launches>>
    /\ UNCHANGED apart
    /\ UNCHANGED managerVars

\* The reply to DEL: an error reply is InvalidReply, any other lets the
\* cursor be looked at.
DelReply(task) ==
    /\ task \in DOMAIN delete_futs
    /\ delete_futs[task].pc = "del"
    /\ \E resp \in DelReplies :
          IF resp.type = "Error"
          THEN /\ delete_futs' = [delete_futs EXCEPT ![task] =
                    KeepSending([delete_futs[task] EXCEPT !.resp = resp], "InvalidReply")]
               /\ UNCHANGED redis
          ELSE /\ delete_futs' = [delete_futs EXCEPT ![task] =
                    KeepSending([delete_futs[task] EXCEPT !.resp = resp], "none")]
               /\ redis' = [redis EXCEPT ![task.address] = @ \ ElementsOf(delete_futs[task].keys)]
    /\ UNCHANGED <<config, sel, launches>>
    /\ UNCHANGED apart
    /\ UNCHANGED managerVars

\* The delete tasks run in this model: one of Node1, for either retained
\* set a pushed map leaves it, one of Node2.
StartedTasks ==
    {{DeleteKeysTaskNew(<<Cluster1, Node1>>, slots, 1),
      DeleteKeysTaskNew(<<Cluster1, Node2>>, {<<0, 50>>}, 1)} :
        slots \in {{<<0, 50>>}, {<<0, 50>>, <<300, 400>>}}}

\* A manager whose delete tasks were started, on backends that hold keys.
InitDelete ==
    /\ MetaManagerNew(DefaultConfig)
    /\ sel = Idle
    /\ redis = [n \in {Node1, Node2} |-> IF n = Node1 THEN Keys ELSE {"kb"}]
    /\ \E tasks \in StartedTasks : delete_futs = [t \in tasks |-> GenFuture(t)]
    /\ launches = NoLaunches
    /\ Apart

\* The same with the task of Node1 alone.
InitScan ==
    /\ MetaManagerNew(DefaultConfig)
    /\ sel = Idle
    /\ redis = [n \in {Node1, Node2} |-> IF n = Node1 THEN Keys ELSE {}]
    /\ \E tasks \in StartedTasks :
          delete_futs = [t \in {x \in tasks : x.address = Node1} |-> GenFuture(t)]
    /\ launches = NoLaunches
    /\ Apart

DeleteTaskRuns(task) == ScanAndDeleteKeys(task) \/ DelReply(task)

(***************************************************************************)
(* DeleteKeysTask::new: the interval gen_future computes.                  *)
(***************************************************************************)
\* Largest delete_rate configured in this model.
MaxDeleteRate == 21

SCAN_DEFAULT_SIZE == 10

NANOS_PER_SEC == 1000000000

\* Duration::from_nanos(1_000_000_000 / (delete_rate / SCAN_DEFAULT_SIZE)) in
\* u64 arithmetic: a division by zero panics.
Interval(delete_rate) ==
    IF delete_rate \div SCAN_DEFAULT_SIZE = 0 THEN [pc |-> "panic", delete_rate |-> delete_rate]
    ELSE [pc |-> "computed", delete_rate |-> delete_rate,
          nanos |-> NANOS_PER_SEC \div (delete_rate \div SCAN_DEFAULT_SIZE)]

\* DeleteKeysTask::new with the configured delete_rate: gen_future computes
\* the interval and, unless that panics, the task holds its future.
DeleteKeysTaskCreate(task) ==
    /\ interval.pc = "new"
    /\ interval' = Interval(interval.delete_rate)
    /\ IF interval'.pc = "panic" THEN UNCHANGED delete_futs
       ELSE delete_futs' = (task :> GenFuture(task))
    /\ UNCHANGED <<config, sel, redis, launches, setdb, repl>>
    /\ UNCHANGED managerVars

\* A delete task of Node1 is about to be created, with some delete_rate >= 1.
InitRate ==
    /\ MetaManagerNew(DefaultConfig)
    /\ sel = Idle
    /\ redis = [n \in {Node1, Node2} |-> IF n = Node1 THEN Keys ELSE {}]
    /\ delete_futs = NoFutures
    /\ launches = NoLaunches
    /\ setdb = NoArgs
    /\ repl = NoReplicator
    /\ \E delete_rate \in 1..MaxDeleteRate : interval = [pc |-> "new", delete_rate |-> delete_rate]

(***************************************************************************)
(* HostDBMap: the SETDB arguments, parse and db_map_to_args.               *)
(***************************************************************************)
\* Number of entries of one SETDB argument list.
MaxEntries == 2

MIGRATING_TAG == "MIGRATING"

IMPORTING_TAG == "IMPORTING"

Lowercase == "abcdefghijklmnopqrstuvwxyz"

Uppercase == "ABCDEFGHIJKLMNOPQRSTUVWXYZ"

Digits == "0123456789"

CharAt(s, i) == SubSeq(s, i, i)

IndexIn(alphabet, c) == {i \in 1..Len(alphabet) : CharAt(alphabet, i) = c}

\* str::to_uppercase (ASCII letters).
RECURSIVE ToUppercase(_)
ToUppercase(s) ==
    IF Len(s) = 0 THEN s
    ELSE LET at == IndexIn(Lowercase, CharAt(s, 1))
             c == IF at = {} THEN CharAt(s, 1) ELSE CharAt(Uppercase, CHOOSE i \in at : TRUE)
         IN  c \o ToUppercase(SubSeq(s, 2, Len(s)))

\* str::split: the parts between the delimiters.
RECURSIVE Split(_, _)
Split(s, delimiter) ==
    LET at == {i \in 1..Len(s) : CharAt(s, i) = delimiter}
    IN  IF at = {} THEN <<s>>
        ELSE LET i == CHOOSE k \in at : \A j \in at : k <= j
             IN  <<SubSeq(s, 1, i - 1)>> \o Split(SubSeq(s, i + 1, Len(s)), delimiter)

RECURSIVE DigitsValue(_, _)
DigitsValue(s, acc) ==
    IF Len(s) = 0 THEN {acc}
    ELSE LET at == IndexIn(Digits, CharAt(s, 1))
         IN  IF at = {} THEN {}
             ELSE DigitsValue(SubSeq(s, 2, Len(s)), acc * 10 + (CHOOSE i \in at : TRUE) - 1)

\* str::parse::<u64>() and str::parse::<usize>(): decimal digits after an
\* optional plus sign; the number, if the string spells one.
ParseUsize(s) ==
    LET digits == IF Len(s) > 0 /\ CharAt(s, 1) = "+" THEN SubSeq(s, 2, Len(s)) ELSE s
    IN  IF Len(digits) = 0 THEN {} ELSE DigitsValue(digits, 0)

\* has_flags: one of the parts of the flags argument is the flag, in any
\* letter case.
HasFlags(flags_str, delimiter, flag) ==
    LET parts == Split(flags_str, delimiter)
    IN  \E i \in 1..Len(parts) : ToUppercase(parts[i]) = flag

\* DBMapFlags::from_arg
FromArg(flags_str) == [force |-> HasFlags(flags_str, ",", "FORCE")]

\* DBMapFlags::to_arg
ToArg(flags) == IF flags.force THEN "FORCE" ELSE "NOFLAG"

\* parse_slot_range: the first two parts of the argument, as numbers.
ParseSlotRange(s) ==
    LET slot_range == Split(s, "-")
    IN  IF Len(slot_range) < 2 THEN {}
        ELSE {SlotRange(start, end, TagNone) :
                 start \in ParseUsize(slot_range[1]), end \in ParseUsize(slot_range[2])}

\* parse_tagged_slot_range: the slot range at the head of the arguments
\* `it`, and the arguments left after it.
ParseTaggedSlotRange(it) ==
    IF Len(it) = 0 THEN {}
    ELSE LET slot_range_tag == ToUppercase(it[1])
         IN  IF slot_range_tag = MIGRATING_TAG
             THEN IF Len(it) < 3 THEN {}
                  ELSE {[slot_range |-> [r EXCEPT !.tag = TagMigrating(it[2])],
                         it |-> SubSeq(it, 4, Len(it))] : r \in ParseSlotRange(it[3])}
             ELSE IF slot_range_tag = IMPORTING_TAG
             THEN IF Len(it) < 3 THEN {}
                  ELSE {[slot_range |-> [r EXCEPT !.tag = TagImporting(it[2])],
                         it |-> SubSeq(it, 4, Len(it))] : r \in ParseSlotRange(it[3])}
             ELSE {[slot_range |-> r, it |-> Tail(it)] : r \in ParseSlotRange(it[1])}

\* parse_db: cluster name, node address and tagged slot range.
ParseDb(it) ==
    IF Len(it) < 2 THEN {}
    ELSE {[dbname |-> it[1], addr |-> it[2], slot_range |-> t.slot_range, it |-> t.it] :
             t \in ParseTaggedSlotRange(SubSeq(it, 3, Len(it)))}

\* Mutant: the slot range replaces the list of its node.
PushReplaces(db_map, dbname, address, slot_range) ==
    LET db == IF dbname \in DOMAIN db_map THEN db_map[dbname] ELSE << >>
    IN  (dbname :> ((address :> <<slot_range>>) @@ db)) @@ db_map

\* db_map.entry(dbname).or_insert_with(..).entry(address).or_insert_with(..)
\*     .push(slot_range)
Push(db_map, dbname, address, slot_range) ==
    LET db == IF dbname \in DOMAIN db_map THEN db_map[dbname] ELSE << >>
        slots == IF address \in DOMAIN db THEN db[address] ELSE << >>
    IN  (dbname :> ((address :> Append(slots, slot_range)) @@ db)) @@ db_map

\* The loop of parse: entries are read while an argument is left.
RECURSIVE ParseEntries(_, _)
ParseEntries(it, db_map) ==
    IF Len(it) = 0 THEN {db_map}
    ELSE LET parsed == ParseDb(it)
         IN  IF parsed = {} THEN {}
             ELSE LET e == CHOOSE x \in parsed : TRUE
                  IN  ParseEntries(e.it, Push(db_map, e.dbname, e.addr, e.slot_range))

\* HostDBMap::parse: the HostDBMap of the arguments, or nothing
\* (CmdParseError).
Parse(it) ==
    IF Len(it) = 0 THEN {}
    ELSE LET epoch_num == ParseUsize(it[1])
         IN  IF epoch_num = {} \/ Len(it) < 2 THEN {}
             ELSE {[epoch |-> e, flags |-> FromArg(it[2]), db_map |-> m] :
                      e \in epoch_num, m \in ParseEntries(SubSeq(it, 3, Len(it)), << >>)}

RECURSIVE Concat(_)
Concat(seqs) == IF Len(seqs) = 0 THEN << >> ELSE Head(seqs) \o Concat(Tail(seqs))

\* The orders a HashMap may be iterated in.
IterOrders(keys) == {q \in SeqsOf(keys) : Len(q) = Cardinality(keys)}

\* The arguments db_map_to_args pushes for one slot range.
SlotRangeArgs(db_name, node, slot_range) ==
    <<db_name, node>>
       \o (IF slot_range.tag.kind = "Migrating" THEN <<"migrating", slot_range.tag.meta>>
           ELSE IF slot_range.tag.kind = "Importing" THEN <<"importing", slot_range.tag.meta>>
           ELSE << >>)
       \o <<ToString(slot_range.start) \o "-" \o ToString(slot_range.end)>>

NodeArgs(db_name, node, slot_ranges) ==
    Concat([i \in 1..Len(slot_ranges) |-> SlotRangeArgs(db_name, node, slot_ranges[i])])

\* db_map_to_args, clusters iterated in `db_order` and the nodes of each
\* in `node_order`.
DbMapToArgs(db_map, db_order, node_order) ==
    Concat([i \in 1..Len(db_order) |->
              LET db_name == db_order[i]
                  nodes == node_order[db_name]
              IN  Concat([j \in 1..Len(nodes) |->
                            NodeArgs(db_name, nodes[j], db_map[db_name][nodes[j]])])])

\* One entry as the broker writes it: cluster, node, tag arguments, slot
\* range arguments.
EntryArgs(g) == <<g.cluster, g.node>> \o g.tag \o g.slots

\* The entries sent in this model: plain and tagged ones, slot ranges
\* written in unusual ways, and entries that are cut short or do not
\* spell numbers.
SentEntries ==
    [cluster : {Cluster1}, node : {Node1, Node2}, tag : {<< >>},
     slots : {<<"0-100">>, <<"50-150">>}]
    \cup {[cluster |-> Cluster2, node |-> Node1, tag |-> << >>, slots |-> <<"0-100">>]}
    \cup [cluster : {Cluster1}, node : {Node1},
          tag : {<<"MIGRATING", "meta">>, <<"migrating", "meta">>,
                 <<"IMPORTING", "meta">>, <<"Importing", "meta">>},
          slots : {<<"300-400">>}]
    \cup [cluster : {Cluster1}, node : {Node1}, tag : {<< >>},
          slots : {<<"5-3">>, <<"0-20000">>, <<"007-10">>, <<"0-10-20">>, <<"+1-2">>,
                   << >>, <<"x-1">>, <<"7">>}]

\* Epoch and flags arguments, also missing ones.
SentHeads ==
    {<<"1", "NOFLAG">>, <<"2", "force">>, <<"2", "x,Force">>, <<"x", "NOFLAG">>, <<"1">>}

SentLists == UNION {[1..n -> SentEntries] : n \in 0..MaxEntries}

\* The arguments of a SETDB command after the command name.
SetDbArgs(head, entries) == head \o Concat([i \in 1..Len(entries) |-> EntryArgs(entries[i])])

\* A SETDB command has arrived.
InitSetDb ==
    /\ MetaManagerNew(DefaultConfig)
    /\ sel = Idle
    /\ redis = NoKeys
    /\ delete_futs = NoFutures
    /\ launches = NoLaunches
    /\ interval = NoInterval
    /\ repl = NoReplicator
    /\ \E head \in SentHeads, entries \in SentLists :
          setdb = [pc |-> "args", head |-> head, entries |-> entries,
                   args |-> SetDbArgs(head, entries)]

\* HostDBMap::parse of the arguments.
ParseArgs ==
    /\ setdb.pc = "args"
    /\ setdb' = [pc |-> "parsed", head |-> setdb.head, entries |-> setdb.entries,
                 args |-> setdb.args, parsed |-> Parse(setdb.args)]
    /\ UNCHANGED <<config, sel, redis, delete_futs, launches, interval, repl>>
    /\ UNCHANGED managerVars

\* db_map_to_args of the parsed HostDBMap, in one of the orders its maps
\* may be iterated in.
ToArgs ==
    /\ setdb.pc = "parsed"
    /\ \E host_db_map \in setdb.parsed :
          \E db_order \in IterOrders(DOMAIN host_db_map.db_map) :
             \E node_order \in [DOMAIN host_db_map.db_map -> SeqsOf({Node1, Node2})] :
                /\ \A c \in DOMAIN host_db_map.db_map :
                      node_order[c] \in IterOrders(DOMAIN host_db_map.db_map[c])
                /\ setdb' = [pc |-> "serialized", head |-> setdb.head,
                             entries |-> setdb.entries, args |-> setdb.args,
                             parsed |-> setdb.parsed,
                             out |-> DbMapToArgs(host_db_map.db_map, db_order, node_order)]
    /\ UNCHANGED <<config, sel, redis, delete_futs, launches, interval, repl>>
    /\ UNCHANGED managerVars

\* The local map of a parsed HostDBMap, as set_meta reads it.
LocalOf(db_map) ==
    UNION {UNION {{Entry(c, n, db_map[c][n][i]) : i \in 1..Len(db_map[c][n])} :
                     n \in DOMAIN db_map[c]} : c \in DOMAIN db_map}

\* set_meta of the parsed SETDB arguments.
SetMetaParsed(w) ==
    \/ /\ calls < MaxRaced
       /\ setdb.pc = "parsed"
       /\ \E host_db_map \in setdb.parsed :
             SetMetaLock(w, [epoch |-> host_db_map.epoch, flags |-> host_db_map.flags,
                             local |-> LocalOf(host_db_map.db_map)])
    \/ SetMetaBody(w)

(***************************************************************************)
(* RedisReplicaReplicator: start, stop, drop and the SLAVEOF loop.         *)
(***************************************************************************)
\* Number of start() calls made on one replicator.
MaxStarts == 2
\* Number of SLAVEOF commands one loop issues.
MaxCommands == 2

Callers == {"a", "b"}

\* AtomicOption::empty()
Empty == 0

NoCall == [pc |-> "idle", op |-> "none", result |-> "none"]

\* RedisReplicaReplicator::new; `resolves` tells whether
\* meta.master_node_address resolves. `chan` holds the oneshot channels
\* that were stored in stop_channel, each with the number of signals sent
\* on it and the future that holds its receiver.
RedisReplicaReplicatorNew(resolves) ==
    [pc |-> "live", resolves |-> resolves, stop_channel |-> Empty, starts |-> 0,
     chan |-> << >>, call |-> [c \in Callers |-> NoCall]]

\* The receiver of a channel is held while start() has not returned and
\* while the future it returned has not completed.
ReceiverHeld(channel) == channel.fut \in {"none", "waiting", "sending"}

Returns(c, op, result) == [repl EXCEPT !.call[c] = [pc |-> "idle", op |-> op, result |-> result]]

\* Mutant: the sender is stored whether or not one is installed.
StartTryStoreOverwrites(c) ==
    /\ repl.pc = "live"
    /\ repl.call[c].pc = "idle"
    /\ repl.starts < MaxStarts
    /\ LET id == Len(repl.chan) + 1
       IN  repl' = [repl EXCEPT !.stop_channel = id,
                                !.starts = @ + 1,
                                !.chan = Append(@, [sent |-> 0, fut |-> "none", cmds |-> 0,
                                                    late |-> 0, by |-> "none"]),
                                !.call[c] = [pc |-> "resolve", op |-> "start",
                                             result |-> "none", id |-> id]]
    /\ UNCHANGED <<config, sel, redis, delete_futs, launches, interval, setdb>>
    /\ UNCHANGED managerVars

\* start(): oneshot::channel() and stop_channel.try_store(sender): the
\* sender is stored if the option is empty, else start returns
\* AlreadyStarted and the new channel is dropped.
StartTryStore(c) ==
    /\ repl.pc = "live"
    /\ repl.call[c].pc = "idle"
    /\ repl.starts < MaxStarts
    /\ LET id == Len(repl.chan) + 1
       IN  IF repl.stop_channel # Empty
           THEN repl' = [Returns(c, "start", "AlreadyStarted") EXCEPT !.starts = @ + 1]
           ELSE repl' = [repl EXCEPT !.stop_channel = id,
                                     !.starts = @ + 1,
                                     !.chan = Append(@, [sent |-> 0, fut |-> "none", cmds |-> 0,
                                                         late |-> 0, by |-> "none"]),
                                     !.call[c] = [pc |-> "resolve", op |-> "start",
                                                  result |-> "none", id |-> id]]
    /\ UNCHANGED <<config, sel, redis, delete_futs, launches, interval, setdb>>
    /\ UNCHANGED managerVars

\* start(): revolve_first_address: InvalidAddress drops the receiver; else
\* the future of receiver.select(send_fut) is returned and spawned.
StartResolve(c) ==
    /\ repl.call[c].pc = "resolve"
    /\ LET id == repl.call[c].id
       IN  IF repl.resolves
           THEN repl' = [Returns(c, "start", "Started") EXCEPT !.chan[id].fut = "waiting"]
           ELSE repl' = [Returns(c, "start", "InvalidAddress") EXCEPT !.chan[id].fut = "failed"]
    /\ UNCHANGED <<config, sel, redis, delete_futs, launches, interval, setdb>>
    /\ UNCHANGED managerVars

\* Mutant: the sender is used and left in stop_channel.
SendStopSignalKeeps(r) ==
    IF r.stop_channel = Empty
    THEN [repl |-> r, result |-> "AlreadyEnded"]
    ELSE LET id == r.stop_channel
         IN  IF ReceiverHeld(r.chan[id])
             THEN [repl |-> [r EXCEPT !.chan[id].sent = @ + 1], result |-> "Ok"]
             ELSE [repl |-> r, result |-> "Canceled"]

\* send_stop_signal: the sender is taken out of stop_channel and the signal
\* sent; sending fails when the receiver is gone.
SendStopSignal(r) ==
    IF r.stop_channel = Empty
    THEN [repl |-> r, result |-> "AlreadyEnded"]
    ELSE LET id == r.stop_channel
             taken == [r EXCEPT !.stop_channel = Empty]
         IN  IF ReceiverHeld(r.chan[id])
             THEN [repl |-> [taken EXCEPT !.chan[id].sent = @ + 1], result |-> "Ok"]
             ELSE [repl |-> taken, result |-> "Canceled"]

\* stop()
Stop(c) ==
    /\ repl.pc = "live"
    /\ repl.call[c].pc = "idle"
    /\ LET sent == SendStopSignal(repl)
       IN  repl' = [sent.repl EXCEPT !.call[c] = [pc |-> "idle", op |-> "stop",
                                                  result |-> sent.result]]
    /\ UNCHANGED <<config, sel, redis, delete_futs, launches, interval, setdb>>
    /\ UNCHANGED managerVars

\* impl Drop: the last reference is gone, no call is in progress.
Drop ==
    /\ repl.pc = "live"
    /\ \A c \in Callers : repl.call[c].pc = "idle"
    /\ repl' = [SendStopSignal(repl).repl EXCEPT !.pc = "dropped"]
    /\ UNCHANGED <<config, sel, redis, delete_futs, launches, interval, setdb>>
    /\ UNCHANGED managerVars

\* Mutant: the poll does not look at the receiver.
PollReceiverBlind(id) ==
    /\ repl.pc # "none"
    /\ id \in 1..Len(repl.chan)
    /\ repl.chan[id].fut = "waiting"
    /\ repl' = [repl EXCEPT !.chan[id].fut = "sending"]
    /\ UNCHANGED <<config, sel, redis, delete_futs, launches, interval, setdb>>
    /\ UNCHANGED managerVars

\* A poll of the returned future: select polls the receiver first and
\* completes if the signal is there.
PollReceiver(id) ==
    /\ repl.pc # "none"
    /\ id \in 1..Len(repl.chan)
    /\ repl.chan[id].fut = "waiting"
    /\ IF repl.chan[id].sent > 0
       THEN repl' = [repl EXCEPT !.chan[id].fut = "done", !.chan[id].by = "signal"]
       ELSE repl' = [repl EXCEPT !.chan[id].fut = "sending"]
    /\ UNCHANGED <<config, sel, redis, delete_futs, launches, interval, setdb>>
    /\ UNCHANGED managerVars

\* The rest of the poll: keep_sending_cmd executes the next SLAVEOF when
\* its delay is over, waits otherwise, and ends the future on a client
\* error.
PollSendFut(id) ==
    /\ repl.pc # "none"
    /\ id \in 1..Len(repl.chan)
    /\ repl.chan[id].fut = "sending"
    /\ \/ /\ repl.chan[id].cmds < MaxCommands
          /\ repl' = [repl EXCEPT !.chan[id].fut = "waiting",
                                  !.chan[id].cmds = @ + 1,
                                  !.chan[id].late =
                                      IF repl.chan[id].sent > 0 \/ repl.pc = "dropped"
                                      THEN @ + 1 ELSE @]
       \/ repl' = [repl EXCEPT !.chan[id].fut = "waiting"]
       \/ repl' = [repl EXCEPT !.chan[id].fut = "done", !.chan[id].by = "error"]
    /\ UNCHANGED <<config, sel, redis, delete_futs, launches, interval, setdb>>
    /\ UNCHANGED managerVars

\* A replicator was created for a master address that resolves or not.
InitRepl ==
    /\ MetaManagerNew(DefaultConfig)
    /\ sel = Idle
    /\ redis = NoKeys
    /\ delete_futs = NoFutures
    /\ launches = NoLaunches
    /\ interval = NoInterval
    /\ setdb = NoArgs
    /\ \E resolves \in BOOLEAN : repl = RedisReplicaReplicatorNew(resolves)

(***************************************************************************)
(* Specifications.                                                         *)
(***************************************************************************)
\* Concurrent set_meta calls of the control plane.
Next == \E w \in Writers : SetMeta(w)

Spec == Init /\ [][Next]_vars

\* set_meta calls (one at a time, as the lock leaves them) against
\* handle_switch.
NextSwitch == SetMetaRaced("w1") \/ HandleSwitch

SpecSwitch == Init /\ [][NextSwitch]_vars

\* set_meta calls against the hot path.
NextSend == SetMetaRaced("w1") \/ Send \/ TakerReplies

SpecSend == Init /\ [][NextSend]_vars

\* set_meta calls against try_select_db of a session.
NextSelect == SetMetaHosted("w1") \/ \E cmd_ctx \in SelectCmdCtxs : TrySelectDb(cmd_ctx)

SpecSelect == InitSelect /\ [][NextSelect]_vars

\* A SETDB argument list is parsed and written back.
NextParse == ParseArgs \/ ToArgs

SpecParse == InitSetDb /\ [][NextParse]_vars

\* A SETDB argument list is parsed and given to set_meta.
NextSetDb == ParseArgs \/ SetMetaParsed("w1")

SpecSetDb == InitSetDb /\ [][NextSetDb]_vars

\* One set_meta call against the hot path; send_cmd_ctx runs to its end and
\* whoever took a command answers it.
SetMetaFirst(w) ==
    \/ calls = 0 /\ \E cluster_meta \in ProxyClusterMetas : SetMetaLock(w, cluster_meta)
    \/ SetMetaBody(w)

NextHotPath == SetMetaFirst("w1") \/ Send \/ TakerReplies

SpecHotPath ==
    Init /\ [][NextHotPath]_vars /\ WF_vars(Send) /\ WF_vars(TakerReplies)

\* The started delete tasks against their backends; the executor polls
\* every future that can go on.
NextDelete == \E task \in UNION StartedTasks : DeleteTaskRuns(task)

SpecDelete == InitDelete /\ [][NextDelete]_vars

\* One started delete task, polled for as long as it can go on.
SpecScan == InitScan /\ [][NextDelete]_vars /\ WF_vars(NextDelete)

\* A delete task is created and runs.
NextRate ==
    \/ DeleteKeysTaskCreate(DeleteKeysTaskNew(<<Cluster1, Node1>>, {<<0, 50>>}, 1))
    \/ NextDelete

SpecRate == InitRate /\ [][NextRate]_vars

\* One writer of set_meta beside callers of start() on the published tasks.
NextStart ==
    \/ SetMeta("w1")
    \/ \E task \in DeleteTasksOf(snapshots[meta_map]) : TaskStart(task)

SpecStart == Init /\ [][NextStart]_vars

\* The callers of a replicator, its drop and the executor polling the
\* futures it returned.
NextRepl ==
    \/ \E c \in Callers : StartTryStore(c) \/ StartResolve(c) \/ Stop(c)
    \/ Drop
    \/ \E id \in 1..MaxStarts : PollReceiver(id) \/ PollSendFut(id)

SpecRepl == InitRepl /\ [][NextRepl]_vars

\* One caller of a replicator, its drop and the executor, which polls a
\* future again for as long as it has not completed.
NextStopping ==
    \/ StartTryStore("a") \/ StartResolve("a") \/ Stop("a")
    \/ Drop
    \/ \E id \in 1..MaxStarts : PollReceiver(id) \/ PollSendFut(id)

SpecStopping ==
    /\ InitRepl
    /\ [][NextStopping]_vars
    /\ \A id \in 1..MaxStarts : WF_vars(PollReceiver(id)) /\ WF_vars(PollSendFut(id))

(***************************************************************************)
(* Claims.                                                                 *)
(***************************************************************************)
\* No set_meta call is in progress.
Quiescent == \A w \in Writers : sm[w].pc = "idle"

\* What set_meta writes: the published snapshot, the epoch, the tasks.
ManagerState == <<meta_map, snapshots, epoch, epoch_by, running_tasks, running_deleting>>

\* C1: set_meta(meta) is rejected with OldEpoch if and only if meta.epoch <=
\* current epoch and FORCE is not set (so FORCE with the current epoch is
\* accepted, and epoch 0 without FORCE is rejected by a fresh manager); an
\* accepted call returns Ok with its own snapshot published.
C1_OldEpochIff ==
    [][\A w \in Writers :
         /\ (sm[w].pc = "check" /\ sm'[w].pc # "check") =>
               /\ (sm'[w].result = "OldEpoch") <=>
                     (sm[w].cluster_meta.epoch <= epoch /\ ~sm[w].cluster_meta.flags.force)
               /\ (sm'[w].result = "OldEpoch") <=> (sm'[w].pc = "idle")
         /\ (sm[w].pc = "return" /\ sm'[w].pc = "idle") =>
               /\ sm'[w].result = "Ok"
               /\ meta_map = sm[w].call
               /\ snapshots[meta_map].cluster_map = FromClusterMap(sm[w].cluster_meta)
      ]_vars

\* C1 witness: a FORCE meta with the current (non-zero) epoch passed the
\* check and its snapshot is published.
C1_Witness ==
    \E w \in Writers :
        /\ sm[w].pc = "store_epoch"
        /\ sm[w].cluster_meta.flags.force
        /\ sm[w].cluster_meta.epoch = epoch
        /\ epoch > 0
        /\ meta_map = sm[w].call

\* C2: a set_meta call rejected with OldEpoch leaves the published snapshot,
\* the epoch and the running tasks as they were when it was called.
C2_RejectedKeepsState ==
    [][\A w \in Writers :
         /\ (sm[w].pc = "idle" /\ sm'[w].pc # "idle") => UNCHANGED ManagerState
         /\ (sm[w].pc # "idle" /\ sm'[w].pc = "idle" /\ sm'[w].result = "OldEpoch") =>
               UNCHANGED ManagerState
      ]_vars

\* C2 witness: a call was rejected by a manager that has accepted a meta.
C2_Witness ==
    \E w \in Writers : sm[w].pc = "idle" /\ sm[w].result = "OldEpoch" /\ epoch > 0 /\ meta_map > 0

\* The published snapshot and the epoch are those of the last call.
LastCallPublished ==
    /\ ~history.rejected
    /\ meta_map = calls
    /\ epoch_by = calls
    /\ \A m \in history.last :
          /\ epoch = m.epoch
          /\ snapshots[meta_map].cluster_map = FromClusterMap(m)
          /\ {t.meta : t \in snapshots[meta_map].migration_map} = MigrationKeys(m.local)

\* C3 as stated: after set_meta calls with strictly increasing epochs and no
\* FORCE, every call was accepted and the snapshot and epoch are the last
\* call's.
C3_IncreasingAllAccepted ==
    (history.strict /\ calls > 0 /\ Quiescent) => LastCallPublished

\* C3 amended: the same for strictly increasing epochs of which the first is
\* greater than the epoch of the manager (0 when fresh).
C3_IncreasingFromCurrent ==
    (history.strict /\ calls > 0 /\ history.first > 0 /\ Quiescent) => LastCallPublished

\* C3 witness: two calls with increasing epochs have returned.
C3_Witness ==
    history.strict /\ calls > 1 /\ history.first > 0 /\ Quiescent

\* C4 as stated: the epoch never decreases.
C4_EpochNeverDecreases == [][epoch' >= epoch]_vars

\* C4 amended: a set_meta without FORCE that stores the epoch increases it;
\* the epoch decreases only when a FORCE meta of a lower epoch is accepted.
C4_EpochDecreasesOnlyByForce ==
    [][\A w \in Writers :
         (sm[w].pc = "store_epoch" /\ sm'[w].pc # "store_epoch") =>
            /\ epoch' = sm[w].cluster_meta.epoch
            /\ ~sm[w].cluster_meta.flags.force => epoch' > epoch
      ]_vars /\ [][epoch' # epoch => \E w \in Writers : sm[w].pc = "store_epoch"]_vars

\* C4 witness: an accepted FORCE meta is about to store a lower epoch.
C4_Witness ==
    \E w \in Writers :
        /\ sm[w].pc = "store_epoch"
        /\ sm[w].cluster_meta.flags.force
        /\ sm[w].cluster_meta.epoch < epoch

\* C5: an accepted set_meta publishes the snapshot, then stores the epoch,
\* then launches the tasks: every task is launched with its entry in the
\* published snapshot and the epoch already stored.
C5_PublishThenEpochThenTasks ==
    [][\A w \in Writers :
         /\ (sm[w].pc = "publish" /\ sm'[w].pc # "publish") =>
               /\ epoch_by # sm[w].call
               /\ sm[w].new_tasks \cap running_tasks = {}
               /\ sm[w].new_deleting_tasks \cap running_deleting = {}
         /\ (sm[w].pc = "store_epoch" /\ sm'[w].pc # "store_epoch") =>
               /\ meta_map = sm[w].call
               /\ sm[w].new_tasks \cap running_tasks = {}
               /\ sm[w].new_deleting_tasks \cap running_deleting = {}
         /\ (sm[w].pc \in {"run_tasks", "run_deleting_tasks"} /\ sm'[w].pc # sm[w].pc) =>
               /\ meta_map = sm[w].call
               /\ epoch_by = sm[w].call
               /\ (running_tasks' \ running_tasks) \subseteq snapshots[meta_map].migration_map
               /\ (running_deleting' \ running_deleting)
                     \subseteq DeleteTasksOf(snapshots[meta_map])
      ]_vars

\* C5 witness: a set_meta has launched a migration task and a delete task.
C5_Witness ==
    \E w \in Writers :
        /\ sm[w].pc = "return"
        /\ sm[w].new_tasks # {} /\ sm[w].new_tasks \subseteq running_tasks
        /\ sm[w].new_deleting_tasks # {} /\ sm[w].new_deleting_tasks \subseteq running_deleting

\* C6: handle_switch, having read the epoch stored by a set_meta call, loads
\* the snapshot of that call or of a later one, never an older one.
C6_SnapshotNotOlderThanEpoch ==
    (hs.pc = "ret" /\ hs.delegated) =>
        /\ hs.loaded >= hs.seen_by
        /\ hs.loaded = hs.seen_by => hs.loaded_epoch = hs.seen_epoch

\* C6 witness: the switch read the epoch of one accepted call and loaded the
\* snapshot of the next.
C6_Witness ==
    hs.pc = "ret" /\ hs.delegated /\ hs.seen_by > 0 /\ hs.loaded > hs.seen_by

\* C7: set_meta calls never interleave under the lock: at most one is in
\* progress, its epoch check sees the epoch and the snapshot of one call,
\* and so does everyone when none is in progress.
C7_SetMetaSerialized ==
    /\ Cardinality({w \in Writers : sm[w].pc # "idle"}) <= 1
    /\ \A w \in Writers : sm[w].pc # "idle" => lock = w
    /\ (Quiescent \/ \E w \in Writers : sm[w].pc = "check") =>
          /\ epoch_by = meta_map
          /\ snapshots[meta_map].epoch = epoch

\* C7 witness: one writer's call was accepted and the other writer's call is
\* at its epoch check.
C7_Witness ==
    sm["w1"].result = "Ok" /\ sm["w2"].pc = "check" /\ epoch > 0

\* C8: a published snapshot is never mutated: what send_cmd_ctx leased is
\* what its migration-map and cluster-map steps read, whatever set_meta
\* publishes meanwhile.
C8_LeasedSnapshotUnchanged ==
    /\ [](snd.pc # "idle" => (snd.lease \in DOMAIN snapshots /\ snapshots[snd.lease] = snd.leased))
    /\ [][\A i \in DOMAIN snapshots \cap DOMAIN snapshots' : snapshots'[i] = snapshots[i]]_vars

\* C8 witness: the cluster-map step runs on a lease older than the published
\* snapshot.
C8_Witness ==
    snd.pc = "cluster" /\ snd.lease # meta_map /\ snd.leased # snapshots[meta_map]

\* C9: a switch tagged Migrating or Importing is answered NotReady, without
\* reaching the migration map, exactly when its meta epoch is greater than
\* the manager's epoch; otherwise it is delegated and the answer is the
\* migration map's.
C9_NotReadyIffNewerEpoch ==
    [][(hs.pc = "idle" /\ hs'.pc # "idle" /\ hs'.switch_arg.meta.slot_range.tag.kind # "None") =>
          LET arg_epoch == hs'.switch_arg.meta.slot_range.tag.meta.epoch
          IN  /\ arg_epoch > epoch =>
                    /\ hs'.pc = "ret" /\ hs'.result = "NotReady" /\ ~hs'.delegated
                    /\ UNCHANGED ManagerState
              /\ arg_epoch <= epoch => hs'.pc = "delegate"
      ]_vars
    /\ [][(hs.pc = "delegate" /\ hs'.pc # "delegate") =>
             hs'.delegated /\ hs'.result \in {"Ok", "TaskNotFound"}]_vars

\* C9 witness: a switch of epoch 2 was refused by a manager of epoch 1.
C9_Witness ==
    /\ hs.pc = "ret" /\ hs.result = "NotReady" /\ ~hs.delegated
    /\ epoch > 0
    /\ hs.switch_arg.meta.slot_range.tag.meta.epoch > epoch

\* The importing task of the pushed migration is in the published snapshot
\* of an accepted set_meta of the migration's epoch.
PushedEntryAccepted ==
    /\ Quiescent
    /\ snapshots[meta_map].epoch = PushedMigration.epoch
    /\ \E t \in snapshots[meta_map].migration_map :
          t.meta.slot_range.tag = TagImporting(PushedMigration)

\* C10: a switch refused as NotReady is accepted when it is retried after a
\* set_meta of its epoch that carries its migration entry was accepted.
C10_RetryAccepted ==
    [][(refused /\ PushedEntryAccepted /\ hs.pc = "idle" /\ hs'.pc # "idle"
            /\ hs'.switch_arg.meta.slot_range.tag.kind # "None"
            /\ hs'.switch_arg.meta.slot_range.tag.meta = PushedMigration) =>
          hs'.pc = "delegate"]_vars
    /\ [][(refused /\ PushedEntryAccepted /\ hs.pc = "delegate" /\ hs'.pc # "delegate"
            /\ hs.task_meta.slot_range.tag.meta = PushedMigration) =>
          hs'.result = "Ok"]_vars

\* C10 witness: the switch was refused, the entry was pushed, the retry is Ok.
C10_Witness ==
    /\ refused /\ PushedEntryAccepted
    /\ hs.pc = "ret" /\ hs.result = "Ok"
    /\ hs.switch_arg.meta.slot_range.tag.meta = PushedMigration

\* C11: handle_switch passes a Migrating argument on as the Importing tag of
\* the same migration meta, so that it matches the stored (importing) task;
\* cluster, slot bounds, meta, version and sub-command are passed on as they
\* came, and an Importing argument is passed on unchanged.
C11_MigratingNormalized ==
    [][(hs.pc = "delegate" /\ hs'.pc # "delegate") =>
          LET arg == hs.switch_arg
              tag == arg.meta.slot_range.tag
              passed == hs'.passed
          IN  /\ hs'.delegated
              /\ passed.version = arg.version
              /\ hs'.passed_sub_cmd = hs.sub_cmd
              /\ passed.meta.cluster = arg.meta.cluster
              /\ passed.meta.slot_range.start = arg.meta.slot_range.start
              /\ passed.meta.slot_range.end = arg.meta.slot_range.end
              /\ passed.meta.slot_range.tag.kind = "Importing"
              /\ passed.meta.slot_range.tag.meta = tag.meta
              /\ tag.kind = "Importing" => passed = arg
              /\ (hs'.result = "Ok") <=>
                    \E t \in snapshots[meta_map].migration_map :
                        /\ t.meta.cluster = arg.meta.cluster
                        /\ t.meta.slot_range.start = arg.meta.slot_range.start
                        /\ t.meta.slot_range.end = arg.meta.slot_range.end
                        /\ t.meta.slot_range.tag = TagImporting(tag.meta)
      ]_vars

\* C11 witness: a switch that came tagged Migrating matched the stored
\* importing task.
C11_Witness ==
    /\ hs.pc = "ret" /\ hs.delegated /\ hs.result = "Ok"
    /\ hs.switch_arg.meta.slot_range.tag.kind = "Migrating"
    /\ hs.switch_arg.version = "v2"

\* The slots a delete task retains (range ends inclusive).
Retained(task) == UNION {range[1]..range[2] : range \in task.slot_ranges}

\* A step of the future of `task`.
Polled(task) ==
    /\ task \in DOMAIN delete_futs
    /\ delete_futs'[task] # delete_futs[task]

\* C12: of every SCAN batch a delete task deletes exactly the keys whose
\* slot is outside its retained ranges: the DEL carries those keys and no
\* other, no DEL is sent when there is none, and no key of a retained slot
\* ever leaves the backend.
C12_DeletesExactlyOutsideRetained ==
    [][\A task \in UNION StartedTasks : Polled(task) =>
          LET f == delete_futs[task]
              g == delete_futs'[task]
              gone == redis[task.address] \ redis'[task.address]
          IN  /\ (f.pc = "scan" /\ g.result # "InvalidReply") =>
                    /\ ElementsOf(g.keys) =
                          {k \in ElementsOf(g.batch) : GetSlot(k) \notin Retained(task)}
                    /\ Len(g.keys) = Cardinality(ElementsOf(g.keys))
                    /\ (g.pc = "del") <=> (g.keys # << >>)
                    /\ gone = {}
              /\ (f.pc = "del" /\ g.result # "InvalidReply") =>
                    /\ gone = ElementsOf(f.keys) \cap redis[task.address]
                    /\ redis'[task.address] \cap ElementsOf(f.keys) = {}
              /\ \A k \in gone : GetSlot(k) \notin Retained(task)
      ]_vars
    /\ [][\A n \in {Node1, Node2} : redis'[n] # redis[n] =>
             \E task \in DOMAIN delete_futs :
                 task.address = n /\ delete_futs[task].pc = "del"]_vars

\* C12 witness: of a batch of three keys the task retaining 0-50 and 300-400
\* has deleted the one of slot 51.
C12_Witness ==
    \E task \in DOMAIN delete_futs :
        /\ task.slot_ranges = {<<0, 50>>, <<300, 400>>}
        /\ Len(delete_futs[task].batch) = 3
        /\ delete_futs[task].keys = <<"kb">>
        /\ delete_futs[task].pc # "del"
        /\ redis[task.address] = {"ka", "kc"}

\* C13: the first SCAN of a delete task uses cursor 0 and every later one
\* the cursor of the reply before it; the task ends with Done exactly when a
\* reply carries cursor 0, after the DEL of that batch was answered; and a
\* task that was answered cursor 0 ends.
C13_CursorFollowsReplies ==
    /\ [][\A task \in UNION StartedTasks : Polled(task) =>
            LET f == delete_futs[task]
                g == delete_futs'[task]
            IN  /\ f.pc = "scan" =>
                      /\ g.scan_index = f.index
                      /\ g.scan_index = IF f.scan_index = -1 THEN 0 ELSE f.next_index
                /\ f.pc = "del" => g.scan_index = f.scan_index /\ g.next_index = f.next_index
                /\ g.result # "InvalidReply" =>
                      /\ (g.pc = "ended" /\ g.result = "Done") <=>
                            (g.next_index = 0 /\ (g.keys = << >> \/ f.pc = "del"))
                      /\ g.pc = "ended" =>
                            redis'[task.address] \cap ElementsOf(g.keys) = {}
         ]_vars
    /\ \A task \in UNION StartedTasks :
          (task \in DOMAIN delete_futs /\ delete_futs[task].next_index = 0) ~>
              (task \in DOMAIN delete_futs /\ delete_futs[task].pc = "ended")

\* C13 witness: a task has ended after a SCAN of cursor 1 whose reply
\* carried cursor 0 and keys it deleted.
C13_Witness ==
    \E task \in DOMAIN delete_futs :
        /\ delete_futs[task].pc = "ended" /\ delete_futs[task].result = "Done"
        /\ delete_futs[task].scan_index = 1
        /\ delete_futs[task].keys # << >>

\* The reply is an array whose first element spells a cursor and whose
\* second is a list of keys.
StartsWithCursorAndKeys(resp) ==
    IF resp.type # "Arr" THEN FALSE
    ELSE IF Len(resp.resps) < 2 THEN FALSE
    ELSE IF resp.resps[1].type \notin {"Bulk", "Simple"} THEN FALSE
    ELSE IF resp.resps[2].type # "Arr" THEN FALSE
    ELSE /\ resp.resps[1].s \in {ToString(n) : n \in 0..MaxCursor}
         /\ \A i \in 1..Len(resp.resps[2].resps) : resp.resps[2].resps[i].type = "Bulk"

\* The reply is a two-element array of cursor and key list.
IsCursorAndKeys(resp) == StartsWithCursorAndKeys(resp) /\ Len(resp.resps) = 2

\* A task that ended takes no further step, and a step of a task touches
\* nothing but its own future and its own backend.
OnlyThatTask ==
    [][\A task \in UNION StartedTasks : Polled(task) =>
          /\ delete_futs[task].pc # "ended"
          /\ \A other \in DOMAIN delete_futs \ {task} : delete_futs'[other] = delete_futs[other]
          /\ \A n \in {Node1, Node2} \ {task.address} : redis'[n] = redis[n]
          /\ UNCHANGED managerVars
      ]_vars

\* C14 as stated: a SCAN reply that is not a two-element array of cursor and
\* key list, or an error reply to DEL, ends the task with InvalidReply.
C14_InvalidReplyUnlessTwoElements ==
    [][\A task \in UNION StartedTasks : Polled(task) =>
          LET f == delete_futs[task]
              g == delete_futs'[task]
          IN  ((f.pc = "scan" /\ ~IsCursorAndKeys(g.resp)) \/ (f.pc = "del" /\ g.resp.type = "Error"))
                 => (g.pc = "ended" /\ g.result = "InvalidReply")
      ]_vars

\* C14 amended: a SCAN reply that is not an array beginning with a cursor
\* and a key list (elements after the second are not looked at), or an error
\* reply to DEL, and nothing else, ends the task with InvalidReply; the
\* cursor is not advanced, nothing is deleted, the task sends nothing more
\* and no other task is touched.
C14_InvalidReplyEndsTask ==
    /\ [][\A task \in UNION StartedTasks : Polled(task) =>
            LET f == delete_futs[task]
                g == delete_futs'[task]
                bad == \/ f.pc = "scan" /\ ~StartsWithCursorAndKeys(g.resp)
                       \/ f.pc = "del" /\ g.resp.type = "Error"
            IN  /\ bad <=> g.result = "InvalidReply"
                /\ bad => /\ g.pc = "ended"
                          /\ g.index = f.index
                          /\ redis' = redis
         ]_vars
    /\ OnlyThatTask

\* C14 witness: one task ended with InvalidReply on an error reply to its
\* DEL, and the other task went on to its end.
C14_Witness ==
    \E task \in DOMAIN delete_futs, other \in DOMAIN delete_futs :
        /\ delete_futs[task].pc = "ended" /\ delete_futs[task].result = "InvalidReply"
        /\ delete_futs[task].resp.type = "Error"
        /\ delete_futs[task].next_index = 1
        /\ other # task
        /\ delete_futs[other].pc = "ended" /\ delete_futs[other].result = "Done"
        /\ delete_futs[other].keys # << >>

\* The ranges a node has in a local map, as the bounds a delete task keeps.
NodeRanges(local, k) == {<<r.start, r.end>> : r \in RangesOf(local, k[1], k[2])}

\* C15 as stated: an accepted set_meta that removes a node from the local
\* map, or changes the ranges of a node that has a delete task, builds a
\* snapshot without the previous delete task of that node.
C15_ChangedNodeDropsTask ==
    [][\A w \in Writers :
         (sm[w].pc = "publish" /\ sm'[w].pc # "publish") =>
            LET old == snapshots[sm[w].old]
                local == sm[w].cluster_meta.local
            IN  \A k \in DOMAIN old.deleting_task_map :
                   (\/ k \notin LocalNodes(local)
                    \/ NodeRanges(local, k) # NodeRanges(old.cluster_map, k))
                      => old.deleting_task_map[k]
                            \notin DeleteTasksOf(snapshots'[meta_map'])
      ]_vars

\* C16: in every published snapshot each delete task is filed under its own
\* (cluster, node), that node is in the local map the snapshot was built
\* from, no two tasks are of the same node, and a task created for a node
\* takes the place of the one carried over.
C16_TasksOfLocalNodes ==
    /\ \A i \in DOMAIN snapshots :
          /\ \A k \in DOMAIN snapshots[i].deleting_task_map :
                /\ k \in LocalNodes(snapshots[i].cluster_map)
                /\ snapshots[i].deleting_task_map[k].cluster = k[1]
                /\ snapshots[i].deleting_task_map[k].address = k[2]
          /\ \A t, u \in DeleteTasksOf(snapshots[i]) :
                (t.cluster = u.cluster /\ t.address = u.address) => t = u
    /\ \A w \in Writers : sm[w].pc \in {"store_epoch", "run_tasks", "run_deleting_tasks", "return"} =>
          /\ snapshots[sm[w].call].cluster_map = sm[w].cluster_meta.local
          /\ \A t \in sm[w].new_deleting_tasks :
                /\ <<t.cluster, t.address>> \in DOMAIN snapshots[sm[w].call].deleting_task_map
                /\ snapshots[sm[w].call].deleting_task_map[<<t.cluster, t.address>>] = t

\* C16 witness: the published snapshot holds a new delete task of a node in
\* place of the task the snapshot before held for it.
C16_Witness ==
    \E w \in Writers :
        /\ sm[w].pc = "return"
        /\ \E k \in DOMAIN snapshots[sm[w].old].deleting_task_map :
              /\ k \in DOMAIN snapshots[meta_map].deleting_task_map
              /\ snapshots[meta_map].deleting_task_map[k].born = sm[w].call
              /\ snapshots[sm[w].old].deleting_task_map[k].born < sm[w].call

\* The nodes of the new local map that keep fewer slots than they had.
ShrunkNodes(old_meta_map, local) ==
    {k \in LocalNodes(local) :
        \E slot \in SlotsOf(RangesOf(old_meta_map.cluster_map, k[1], k[2])) :
            slot \notin SlotsOf(RangesOf(local, k[1], k[2]))}

\* C17: a set_meta that shrinks the ranges of a local node builds, for each
\* such node and no other, one new delete task whose retained set is exactly
\* the ranges the node keeps; the task is in the new snapshot and among the
\* tasks that set_meta launches.
C17_ShrunkNodeGetsTask ==
    [][\A w \in Writers :
         /\ (sm[w].pc = "build" /\ sm'[w].pc # "build") =>
               LET local == sm[w].cluster_meta.local
                   shrunk == ShrunkNodes(snapshots[meta_map], local)
                   built == sm'[w].built
               IN  /\ \A k \in shrunk :
                         /\ k \in DOMAIN built.deleting_task_map
                         /\ built.deleting_task_map[k].slot_ranges = NodeRanges(local, k)
                         /\ built.deleting_task_map[k].born = sm[w].call
                         /\ built.deleting_task_map[k] \in sm'[w].new_deleting_tasks
                   /\ Cardinality(sm'[w].new_deleting_tasks) = Cardinality(shrunk)
                   /\ \A t \in sm'[w].new_deleting_tasks : <<t.cluster, t.address>> \in shrunk
         /\ (sm[w].pc = "run_deleting_tasks" /\ sm'[w].pc # "run_deleting_tasks") =>
               /\ sm[w].new_deleting_tasks \subseteq running_deleting'
               /\ sm[w].new_deleting_tasks \subseteq DeleteTasksOf(snapshots[meta_map])
      ]_vars

\* C17 witness: ranges 0-100 of 10.0.0.1 were shrunk to 0-50 and the delete
\* task retaining 0-50 was launched.
C17_Witness ==
    \E w \in Writers :
        /\ sm[w].pc = "return"
        /\ snapshots[sm[w].old].cluster_map = {Entry(Cluster1, Node1, SlotRange(0, 100, TagNone))}
        /\ sm[w].cluster_meta.local = {Entry(Cluster1, Node1, SlotRange(0, 50, TagNone))}
        /\ \E t \in running_deleting :
              /\ t \in sm[w].new_deleting_tasks
              /\ t.address = Node1 /\ t.slot_ranges = {<<0, 50>>}
              /\ snapshots[meta_map].deleting_task_map[<<Cluster1, Node1>>] = t

\* The slot of the command is in the range of a migration task of the
\* leased snapshot.
UnderMigration(frame) ==
    \E t \in snapshots[frame.lease].migration_map :
        /\ t.meta.cluster = frame.cmd_ctx.cluster
        /\ frame.cmd_ctx.slot \in t.meta.slot_range.start..t.meta.slot_range.end

\* C18: send_cmd_ctx asks the migration map first and the cluster map only
\* for a command the migration map handed back as SlotNotFound (its slot is
\* not under migration); a command the migration map took or failed is not
\* passed to the cluster map, so no command is taken twice.
C18_DispatchedAtMostOnce ==
    /\ [](/\ Cardinality(snd.accepted_by) <= 1
          /\ snd.asked \in {<< >>, <<"migration">>, <<"migration", "cluster">>}
          /\ "migration" \in snd.accepted_by => snd.asked = <<"migration">>
          /\ snd.pc = "migration" => snd.asked = << >>
          /\ snd.pc = "cluster" =>
                snd.asked = <<"migration">> /\ snd.accepted_by = {} /\ snd.reply = "none")
    /\ [][(snd.pc = "migration" /\ snd'.pc # "migration") =>
             /\ (snd'.pc = "cluster") <=> ~UnderMigration(snd)
             /\ (snd'.pc = "idle") <=> UnderMigration(snd)
         ]_vars

\* C18 witness: a command of a slot under migration was taken by the
\* migration map and send_cmd_ctx returned.
C18_Witness ==
    snd.pc = "idle" /\ snd.accepted_by = {"migration"} /\ snd.asked = <<"migration">>

C20_SelectsOnlyIfEnabled ==
    [][sel' # sel =>
          LET hosted == {e.cluster : e \in snapshots[meta_map].cluster_map}
              selects == /\ config.auto_select_db
                         /\ sel'.given.cluster = DefaultCluster
                         /\ Cardinality(hosted) = 1
          IN  /\ selects => sel'.returned.cluster \in hosted
              /\ ~selects => sel'.returned = sel'.given
              /\ sel'.returned.slot = sel'.given.slot
      ]_vars

\* The multiset of the elements of a sequence.
BagOf(seq) ==
    [x \in {seq[i] : i \in 1..Len(seq)} |-> Cardinality({i \in 1..Len(seq) : seq[i] = x})]

\* An entry as the SETDB grammar writes it: an optional MIGRATING or
\* IMPORTING tag with its meta, then <start>-<end> in decimal with
\* start <= end <= 16383.
WellFormedEntry(g) ==
    /\ \/ Len(g.tag) = 0
       \/ Len(g.tag) = 2 /\ g.tag[1] \in {MIGRATING_TAG, IMPORTING_TAG}
    /\ Len(g.slots) = 1
    /\ \E r \in ParseSlotRange(g.slots[1]) :
          /\ r.start <= r.end /\ r.end <= 16383
          /\ g.slots[1] = ToString(r.start) \o "-" \o ToString(r.end)

\* C21 as stated: for every well-formed SETDB entry list, tagged entries
\* included, the arguments db_map_to_args writes for the parsed map are, as
\* a multiset, the arguments of the list after epoch and flags.
C21_RoundTripKeepsArguments ==
    (/\ setdb.pc = "serialized"
     /\ Len(setdb.head) = 2
     /\ \A i \in 1..Len(setdb.entries) : WellFormedEntry(setdb.entries[i]))
        => BagOf(setdb.out) = BagOf(SubSeq(setdb.args, 3, Len(setdb.args)))

\* An entry parse reads as one entry: cluster, node, an optional tag in any
\* letter case with its meta, one slot range argument.
IsEntry(g) ==
    /\ \/ Len(g.tag) = 0
       \/ Len(g.tag) = 2 /\ ToUppercase(g.tag[1]) \in {MIGRATING_TAG, IMPORTING_TAG}
    /\ Len(g.slots) = 1

\* The positions of the entries that name cluster c and node n.
Naming(entries, c, n) == {i \in 1..Len(entries) : entries[i].cluster = c /\ entries[i].node = n}

\* C22: an accepted list of entries is grouped by cluster and then by node:
\* the clusters of the map are the clusters named, the nodes under a
\* cluster are the nodes named with it, the list of a (cluster, node)
\* holds one slot range per entry naming the pair, each with the numbers
\* and the tag of its entry; the epoch is the number the first argument
\* spells and force is set by FORCE in any letter case and not by NOFLAG.
C22_GroupedByClusterAndNode ==
    (/\ setdb.pc \in {"parsed", "serialized"}
     /\ Len(setdb.head) = 2
     /\ \A i \in 1..Len(setdb.entries) : IsEntry(setdb.entries[i]))
        => \A host_db_map \in setdb.parsed :
              LET db_map == host_db_map.db_map
                  entries == setdb.entries
              IN  /\ DOMAIN db_map = {entries[i].cluster : i \in 1..Len(entries)}
                  /\ \A c \in DOMAIN db_map :
                        /\ DOMAIN db_map[c] =
                              {entries[i].node : i \in {j \in 1..Len(entries) : entries[j].cluster = c}}
                        /\ \A n \in DOMAIN db_map[c] :
                              /\ Len(db_map[c][n]) = Cardinality(Naming(entries, c, n))
                              /\ \A i \in Naming(entries, c, n) :
                                    LET k == Cardinality({j \in Naming(entries, c, n) : j <= i})
                                        g == entries[i]
                                    IN  /\ SlotRange(db_map[c][n][k].start, db_map[c][n][k].end, TagNone)
                                              \in ParseSlotRange(g.slots[1])
                                        /\ db_map[c][n][k].tag.kind = "None" <=> Len(g.tag) = 0
                                        /\ db_map[c][n][k].tag.kind = "Migrating"
                                              <=> (Len(g.tag) = 2 /\ ToUppercase(g.tag[1]) = MIGRATING_TAG)
                  /\ host_db_map.epoch \in ParseUsize(setdb.head[1])
                  /\ ToUppercase(setdb.head[2]) = "FORCE" => host_db_map.flags.force
                  /\ setdb.head[2] = "NOFLAG" => ~host_db_map.flags.force

\* Two entries of one node, a tagged entry and a lower-case force were parsed.
C22_Witness ==
    /\ setdb.pc = "parsed"
    /\ setdb.head = <<"2", "force">>
    /\ Len(setdb.entries) = 2
    /\ setdb.entries[1].tag = <<"migrating", "meta">>
    /\ setdb.entries[2].node = Node1
    /\ \E host_db_map \in setdb.parsed :
          /\ Len(host_db_map.db_map[Cluster1][Node1]) = 2
          /\ host_db_map.flags.force

\* C24 as stated: in every published snapshot every slot range satisfies
\* 0 <= start <= end <= 16383 and, within a cluster, no slot is in the
\* ranges of two nodes that are both not migrating it.
C24_OneOwnerPerSlot ==
    LET cluster_map == snapshots[meta_map].cluster_map
    IN  /\ \A e \in cluster_map :
              /\ 0 <= e.range.start
              /\ e.range.start <= e.range.end
              /\ e.range.end <= 16383
        /\ \A e1, e2 \in cluster_map :
              (/\ e1.cluster = e2.cluster
               /\ e1.node # e2.node
               /\ e1.range.tag.kind # "Migrating"
               /\ e2.range.tag.kind # "Migrating")
                 => SlotsOf({e1.range}) \cap SlotsOf({e2.range}) = {}

\* C25 as stated: for every delete_rate >= 1 the creation of a delete task
\* computes the interval 1_000_000_000 / (delete_rate / 10) ns, and the
\* computation is defined.
C25_IntervalDefined ==
    interval.pc \notin {"none", "new"}
       => /\ interval.delete_rate >= 1
          /\ interval.pc = "computed"
          /\ interval.nanos = 1000000000 \div (interval.delete_rate \div 10)

\* C26: handle_switch of a slot range whose tag is None returns InvalidArg
\* whatever the epoch is, without reaching the migration map, and the step
\* changes nothing of the manager.
C26_NoTagIsInvalidArg ==
    [][(/\ hs.pc = "idle"
        /\ hs'.pc # "idle"
        /\ hs'.switch_arg.meta.slot_range.tag.kind = "None")
          => /\ hs'.pc = "ret"
             /\ hs'.result = "InvalidArg"
             /\ ~hs'.delegated
             /\ UNCHANGED <<meta_map, snapshots, epoch, epoch_by, lock, calls, history, sm,
                            running_tasks, running_deleting, refused, snd>>
      ]_vars

\* A switch without a tag was answered while the epoch was above 0.
C26_Witness ==
    /\ hs.pc = "ret"
    /\ hs.switch_arg.meta.slot_range.tag.kind = "None"
    /\ hs.result = "InvalidArg"
    /\ epoch > 0

\* The channels whose future was returned and has not completed.
Looping == {id \in 1..Len(repl.chan) : repl.chan[id].fut \in {"waiting", "sending"}}

\* A signal sent to a looping future makes it complete, and so does the
\* drop of the replicator.
StopCompletesFuture ==
    /\ \A id \in 1..MaxStarts :
          (id \in Looping /\ repl.chan[id].sent > 0)
             ~> (id \in 1..Len(repl.chan) /\ repl.chan[id].fut = "done")
    /\ (repl.pc = "dropped") ~> (Looping = {})

\* C23 as stated: once a stop signal is sent, by stop() or by drop, the
\* future completes and the loop issues no further SLAVEOF command; no
\* future outlives a dropped replicator.
C23_NoCommandAfterStop ==
    /\ StopCompletesFuture
    /\ [](\A id \in 1..Len(repl.chan) : repl.chan[id].late = 0)

\* C23: once a stop signal is sent, by stop() or by drop, the future
\* completes; it issues no command in a poll that starts after the signal,
\* so at most the one command of the poll under way when the signal was
\* sent, and none once it has completed; no future outlives a dropped
\* replicator.
C23_StopEndsLoop ==
    /\ StopCompletesFuture
    /\ [](\A id \in 1..Len(repl.chan) : repl.chan[id].late <= 1)
    /\ [][\A id \in 1..Len(repl.chan) :
             /\ (repl.chan[id].fut = "waiting" /\ (repl.chan[id].sent > 0 \/ repl.pc = "dropped"))
                   => repl'.chan[id].cmds = repl.chan[id].cmds
             /\ repl.chan[id].fut = "done"
                   => repl'.chan[id].cmds = repl.chan[id].cmds /\ repl'.chan[id].fut = "done"
        ]_vars

\* A loop that had issued commands was stopped while a poll was under way,
\* issued the command of that poll and completed on the signal.
C23_Witness ==
    \E id \in 1..Len(repl.chan) :
       /\ repl.chan[id].fut = "done"
       /\ repl.chan[id].by = "signal"
       /\ repl.chan[id].cmds = 2
       /\ repl.chan[id].late = 1

\* A step of start() up to try_store, and a step of stop().
StartStep == repl'.starts = repl.starts + 1

StopStep ==
    /\ repl'.pc = "live"
    /\ repl'.starts = repl.starts
    /\ \/ repl'.stop_channel # repl.stop_channel
       \/ \E c \in Callers : repl'.call[c] # repl.call[c] /\ repl'.call[c].op = "stop"

\* The channels whose loop runs or is about to, and was not told to stop.
Unstopped ==
    {id \in 1..Len(repl.chan) :
        repl.chan[id].sent = 0 /\ repl.chan[id].fut \in {"none", "waiting", "sending"}}

\* C27: a start() that finds a sender installed returns AlreadyStarted and
\* leaves the installed sender, the channels and the futures as they are;
\* the installed sender is the one of the latest loop, so that a later
\* stop() signals that loop; a start() that finds none installs its own,
\* and over all interleavings of start() calls at most one loop runs
\* unstopped.
C27_SecondStartRejected ==
    /\ [][StartStep =>
             IF repl.stop_channel # Empty
             THEN /\ repl'.stop_channel = repl.stop_channel
                  /\ repl'.chan = repl.chan
                  /\ \E c \in Callers : repl'.call[c] = [pc |-> "idle", op |-> "start",
                                                        result |-> "AlreadyStarted"]
                  /\ \A c \in Callers : repl'.call[c].pc = repl.call[c].pc
             ELSE /\ repl'.stop_channel = Len(repl.chan) + 1
                  /\ \E c \in Callers : repl.call[c].pc = "idle" /\ repl'.call[c].pc = "resolve"
        ]_vars
    /\ [][(StopStep /\ repl.stop_channel # Empty /\ ReceiverHeld(repl.chan[repl.stop_channel]))
             => repl'.chan[repl.stop_channel].sent = 1]_vars
    /\ [](repl.pc # "none" =>
             /\ Cardinality(Unstopped) <= 1
             /\ repl.stop_channel \in {Empty, Len(repl.chan)})

\* One caller was answered AlreadyStarted and the stop() of the other then
\* ended the loop that was running.
C27_Witness ==
    /\ repl.pc = "live"
    /\ Len(repl.chan) = 1
    /\ repl.call["a"] = [pc |-> "idle", op |-> "start", result |-> "AlreadyStarted"]
    /\ repl.call["b"] = [pc |-> "idle", op |-> "stop", result |-> "Ok"]
    /\ repl.chan[1].fut = "done"
    /\ repl.chan[1].by = "signal"

\* C28: stop() returns AlreadyEnded exactly when no sender is installed
\* (never started, or stopped since); a stop() that finds a sender takes it
\* out, so that no channel gets more than one signal and the next start()
\* installs a sender again.
C28_StopOncePerStart ==
    /\ [][StopStep =>
             \E c \in Callers :
                /\ repl'.call[c].pc = "idle"
                /\ repl'.call[c].op = "stop"
                /\ repl'.stop_channel = Empty
                /\ IF repl.stop_channel = Empty
                   THEN repl'.call[c].result = "AlreadyEnded"
                   ELSE repl'.call[c].result =
                           IF ReceiverHeld(repl.chan[repl.stop_channel]) THEN "Ok" ELSE "Canceled"
        ]_vars
    /\ [][(StartStep /\ repl.stop_channel = Empty)
             => \E c \in Callers : repl'.call[c].pc = "resolve" /\ repl'.stop_channel # Empty]_vars
    /\ [](repl.pc # "none" => \A id \in 1..Len(repl.chan) : repl.chan[id].sent <= 1)

\* A loop was stopped, a second stop() was answered AlreadyEnded and a new
\* start() was accepted.
C28_Witness ==
    /\ repl.pc = "live"
    /\ Len(repl.chan) = 2
    /\ repl.chan[1].sent = 1
    /\ repl.chan[2].fut = "waiting"
    /\ repl.call["a"] = [pc |-> "idle", op |-> "stop", result |-> "AlreadyEnded"]
    /\ repl.call["b"] = [pc |-> "idle", op |-> "start", result |-> "Started"]

\* C29 as stated: a start() that failed with InvalidAddress and a loop that
\* ended by itself on a client error leave the replicator not started: no
\* sender of such a channel is installed (so that the next start() is
\* accepted and the next stop() returns AlreadyEnded).
C29_FailedStartNotStarted ==
    (repl.pc = "live" /\ repl.stop_channel # Empty)
       => /\ repl.chan[repl.stop_channel].fut # "failed"
          /\ repl.chan[repl.stop_channel].by # "error"

\* C30: of the start() calls made on a task the first obtains the future
\* and every other gets None; the new tasks of a set_meta call are not
\* tasks of the snapshot it replaces, so that a carried-over task is not
\* started by set_meta again.
C30_FutureStartedOnce ==
    /\ \A task \in DOMAIN launches :
          /\ Len(launches[task]) >= 1
          /\ launches[task][1] = "Some"
          /\ \A i \in 2..Len(launches[task]) : launches[task][i] = "None"
    /\ \A w \in Building(sm) :
          sm[w].new_deleting_tasks \cap DeleteTasksOf(snapshots[sm[w].old]) = {}

\* A task started once by set_meta was carried over into a newer snapshot
\* and a further start() on it got None.
C30_Witness ==
    \E task \in DeleteTasksOf(snapshots[meta_map]) :
       /\ task.born < meta_map
       /\ task \in running_deleting
       /\ CallsOf(launches, task) = <<"Some", "None">>
       /\ Quiescent

\* The slots a node owns in a local map: those of its ranges without a tag.
Owned(local, k) ==
    SlotsOf({r \in RangesOf(local, k[1], k[2]) : r.tag.kind = "None"})

\* C31 as stated: every delete task of the published snapshot, carried over
\* or new, retains every slot its node owns in that snapshot, so that it
\* deletes no key of an owned slot.
C31_TasksRetainOwnedSlots ==
    LET published == snapshots[meta_map]
    IN  \A k \in DOMAIN published.deleting_task_map :
           Owned(published.cluster_map, k) \subseteq Retained(published.deleting_task_map[k])

=============================================================================
